---- MODULE Spec2Model ----
(***************************************************************************)
(* Persistence and synchronisation layer of relaxed-point-planner.         *)
(*                                                                         *)
(* Part I   the Structured Store Driver (SQLiteStorageService): its        *)
(*          tables, the statements each method runs on the connection,     *)
(*          and the promise chain (operationQueue) that serialises them.   *)
(* Part II  the Persistence Facade (DataPersistenceService): its methods   *)
(*          over the driver, Preferences and localStorage, with the        *)
(*          failures of the stores as inputs.                              *)
(* Part III the component RelaxedScheduler: completing and un-completing   *)
(*          tasks, its renders and its save effects.                       *)
(* Part IV  the Remote Sync Coordinator (CalendarSyncService): the batch   *)
(*          sync, the authenticated request with its refresh and retry,    *)
(*          and the sync status it persists.                               *)
(***************************************************************************)
EXTENDS Integers, Sequences, FiniteSets, TLC

(* ------------------------------ bounds ------------------------------- *)
\* calls submitted to queueOperation in one behaviour
MaxOps == 2
\* calls of the methods that do not go through queueOperation
MaxDirect == 1
\* statements the engine is made to fail in one behaviour
MaxFaults == 1
\* calls of CalendarSyncService in one behaviour
MaxCalendarCalls == 3
\* the points a counter of the application holds, in absolute value
MaxPoints == 50
\* calls of completeTask and uncompleteTask in one behaviour
MaxCalls == 3

(* ------------------------------ values ------------------------------- *)
\* SQL NULL and the JavaScript undefined, as the code's conversions see them
NULL == "NULL"
undefined == "undefined"

\* `x || null` of savePreset: every falsy value is stored as NULL
OrNull(x) == IF x \in {undefined, NULL, ""} THEN NULL ELSE x
\* `x || undefined` of loadPresets/getPresetById
OrUndefined(x) == IF x \in {undefined, NULL, ""} THEN undefined ELSE x

PresetIds == {"p1", "p2"}
ActivityIds == {"a1", "a2"}
Dates == {"day1", "day2"}

\* JSON.stringify / JSON.parse: a text that holds the value; a field that is
\* undefined is left out of the text and reads as undefined again
Stringify(v) == [json |-> v]
Parse(text) == text.json

Activity(a, d) == [id |-> a, points |-> 5, description |-> d]

\* a set as a sequence, in one fixed order
RECURSIVE SetToSeq(_)
SetToSeq(S) ==
  IF S = {} THEN <<>>
  ELSE LET x == CHOOSE y \in S : TRUE IN <<x>> \o SetToSeq(S \ {x})

(* --------------------------- the four tables -------------------------- *)
\* createTables: presets(id PK), preset_activities(id PK, preset_id, ...,
\* sort_order), completed_tasks(id PK, UNIQUE(activity_id, date)),
\* points_tracking(id PK); each table is the set of its rows.
\* schema: the CREATE TABLE statements have run
EmptyTables ==
  [schema |-> FALSE, presets |-> {}, preset_activities |-> {},
   completed_tasks |-> {}, points_tracking |-> {}]

\* createTables, last step: the singleton row is inserted when the table is empty
InitPointsRowSkipped(T) == T
InitPointsRow(T) ==
  IF T.points_tracking = {}
  THEN [T EXCEPT !.points_tracking =
          {[id |-> "main", total_points |-> 0, daily_points |-> 0,
            last_activity_date |-> NULL]}]
  ELSE T

\* ORDER BY sort_order ASC
RECURSIVE BySortOrder(_)
BySortOrder(S) ==
  IF S = {} THEN <<>>
  ELSE LET m == CHOOSE x \in S : \A y \in S : x.sort_order <= y.sort_order
       IN <<m>> \o BySortOrder(S \ {m})

\* ORDER BY created_at DESC
RECURSIVE ByCreatedDesc(_)
ByCreatedDesc(S) ==
  IF S = {} THEN <<>>
  ELSE LET m == CHOOSE x \in S : \A y \in S : x.created_at >= y.created_at
       IN <<m>> \o ByCreatedDesc(S \ {m})

\* INSERT OR REPLACE INTO presets
UpsertPresetRow(T, P) ==
  [T EXCEPT !.presets =
     {r \in @ : r.id # P.id} \cup
     {[id |-> P.id, mood |-> OrNull(P.mood), created_at |-> P.createdAt]}]

\* DELETE FROM preset_activities WHERE preset_id = ?
DeleteActivityRowsSkipped(T, pid) == T
DeleteActivityRows(T, pid) ==
  [T EXCEPT !.preset_activities = {r \in @ : r.preset_id # pid}]

\* DELETE FROM presets WHERE id = ?
DeletePresetRow(T, pid) == [T EXCEPT !.presets = {r \in @ : r.id # pid}]

\* the row savePreset inserts for the i-th activity (sort_order = i, from 0)
ActivityRow(pid, a, i) ==
  [id |-> a.id, preset_id |-> pid, points |-> a.points,
   description |-> OrNull(a.description), sort_order |-> i]

\* plain INSERT INTO preset_activities: the primary key is the activity id alone
ActivityInsertConflicts(T, a) == \E r \in T.preset_activities : r.id = a.id

InsertActivityRow(T, pid, a, i) ==
  [T EXCEPT !.preset_activities = @ \cup {ActivityRow(pid, a, i)}]

\* the Activity loadPresets / getPresetById build from a row
ActivityOfRow(r) ==
  [id |-> r.id, points |-> r.points, description |-> OrUndefined(r.description)]

\* SELECT * FROM preset_activities WHERE preset_id = ? ORDER BY sort_order ASC,
\* mapped to Activity objects
ActivitiesOf(T, pid) ==
  LET rows == BySortOrder({r \in T.preset_activities : r.preset_id = pid})
  IN [i \in 1..Len(rows) |-> ActivityOfRow(rows[i])]

\* the Preset built from a presets row and its activity rows
PresetOfRow(T, row) ==
  [id |-> row.id, mood |-> OrUndefined(row.mood), createdAt |-> row.created_at,
   activities |-> ActivitiesOf(T, row.id)]

TaskRow(t) ==
  [id |-> t.id, activity_id |-> t.activityId, date |-> t.date, points |-> t.points]

TaskOfRow(r) ==
  [id |-> r.id, activityId |-> r.activity_id, date |-> r.date, points |-> r.points]

\* plain INSERT INTO completed_tasks: id is the primary key, (activity_id, date) is UNIQUE
TaskInsertConflicts(T, t) ==
  \E r \in T.completed_tasks :
    r.id = t.id \/ (r.activity_id = t.activityId /\ r.date = t.date)

InsertTaskRow(T, t) == [T EXCEPT !.completed_tasks = @ \cup {TaskRow(t)}]

\* INSERT OR REPLACE INTO completed_tasks: the rows in conflict are deleted first
ReplaceTaskRow(T, t) ==
  [T EXCEPT !.completed_tasks =
     {r \in @ : r.id # t.id /\ ~(r.activity_id = t.activityId /\ r.date = t.date)}
     \cup {TaskRow(t)}]

\* DELETE FROM completed_tasks WHERE activity_id = ? AND date = ?
DeleteTaskRow(T, a, d) ==
  [T EXCEPT !.completed_tasks = {r \in @ : ~(r.activity_id = a /\ r.date = d)}]

\* UPDATE points_tracking SET <field> = ? WHERE id = 'main'
UpdatePointsRow(T, f, v) ==
  [T EXCEPT !.points_tracking =
     {IF r.id = "main"
      THEN [[id |-> "main", total_points |-> 0, daily_points |-> 0,
             last_activity_date |-> NULL] EXCEPT ![f] = v]
      ELSE r : r \in @}]
UpdatePointsField(T, f, v) ==
  [T EXCEPT !.points_tracking =
     {IF r.id = "main" THEN [r EXCEPT ![f] = v] ELSE r : r \in @}]

ZeroPoints == [totalPoints |-> 0, dailyPoints |-> 0, lastActivityDate |-> NULL]

\* SELECT * FROM points_tracking WHERE id = 'main', as loadPoints returns it
PointsOf(T) ==
  LET rows == {r \in T.points_tracking : r.id = "main"}
  IN IF rows = {} THEN ZeroPoints
     ELSE LET r == CHOOSE x \in rows : TRUE
          IN [totalPoints |-> r.total_points, dailyPoints |-> r.daily_points,
              lastActivityDate |-> OrNull(r.last_activity_date)]

(* ------------------- the statements of each method -------------------- *)
\* A call in progress: kind and arg name the method and its argument, st is
\* queued | running | resolved | rejected, pc counts the statements the body
\* has awaited so far, acc holds the body's locals, res is what the promise
\* settled with ("ok" for a void method, "error" for a rejection; a Preset or
\* null is the sequence of one or no preset).
Call(kind, arg) ==
  [kind |-> kind, arg |-> arg, st |-> "queued", pc |-> 1, acc |-> <<>>, res |-> <<>>]

Settled(o) == o.st \in {"resolved", "rejected"}

\* methods whose try/catch turns a failed statement into a default result
CatchingKinds ==
  {"loadPresets", "loadCompletedTasks", "loadPoints", "getPresetById",
   "searchPresets", "getPresetStats"}

DefaultResult(kind) ==
  CASE kind = "loadPoints" -> ZeroPoints
    [] kind = "getPresetStats" -> [totalPresets |-> 0, totalActivities |-> 0]
    [] OTHER -> <<>>

Resolve(o, r) == [o EXCEPT !.st = "resolved", !.res = r]
Reject(o) == [o EXCEPT !.st = "rejected", !.res = "error"]
Continue(o, acc) == [o EXCEPT !.pc = @ + 1, !.acc = acc]

\* catch (error) { ...; throw error } against catch (error) { ...; return default }
OnError(o) ==
  IF o.kind \in CatchingKinds THEN Resolve(o, DefaultResult(o.kind)) ELSE Reject(o)

\* searchPresets: WHERE p.name LIKE ? OR p.mood LIKE ? OR pa.title LIKE ?  The
\* model carries the mood only (names and titles are stored and read verbatim).
SearchMatches(row, term) == row.mood # NULL /\ row.mood = term

\* The statement at o.pc, run on tables T without a failure of the engine:
\* the call afterwards and the tables afterwards.
Exec(o, T) ==
  CASE o.kind = "savePreset" ->
         LET P == o.arg
             n == Len(P.activities)
             i == o.pc - 2
         IN IF o.pc = 1 THEN [o |-> Continue(o, o.acc), T |-> UpsertPresetRow(T, P)]
            ELSE IF o.pc = 2
            THEN [o |-> IF n = 0 THEN Resolve(o, "ok") ELSE Continue(o, o.acc),
                  T |-> DeleteActivityRows(T, P.id)]
            ELSE IF ActivityInsertConflicts(T, P.activities[i])
            THEN [o |-> OnError(o), T |-> T]
            ELSE [o |-> IF i = n THEN Resolve(o, "ok") ELSE Continue(o, o.acc),
                  T |-> InsertActivityRow(T, P.id, P.activities[i], i - 1)]
    [] o.kind = "loadPresets" ->
         IF o.pc = 1
         THEN LET rows == ByCreatedDesc(T.presets)
              IN [o |-> IF rows = <<>> THEN Resolve(o, <<>>)
                        ELSE Continue(o, [rows |-> rows, out |-> <<>>]),
                  T |-> T]
         ELSE LET k == o.pc - 1
                  out == Append(o.acc.out, PresetOfRow(T, o.acc.rows[k]))
              IN [o |-> IF k = Len(o.acc.rows) THEN Resolve(o, out)
                        ELSE Continue(o, [o.acc EXCEPT !.out = out]),
                  T |-> T]
    [] o.kind = "deletePreset" ->
         IF o.pc = 1 THEN [o |-> Continue(o, o.acc), T |-> DeleteActivityRows(T, o.arg)]
         ELSE [o |-> Resolve(o, "ok"), T |-> DeletePresetRow(T, o.arg)]
    [] o.kind = "getPresetById" ->
         IF o.pc = 1
         THEN LET rows == {r \in T.presets : r.id = o.arg}
              IN [o |-> IF rows = {} THEN Resolve(o, <<>>)
                        ELSE Continue(o, CHOOSE r \in rows : TRUE),
                  T |-> T]
         ELSE [o |-> Resolve(o, <<PresetOfRow(T, o.acc)>>), T |-> T]
    [] o.kind = "searchPresets" ->
         \* one search query, then getPresetById (two queries) for each row found
         IF o.pc = 1
         THEN LET rows == ByCreatedDesc({r \in T.presets : SearchMatches(r, o.arg)})
              IN [o |-> IF rows = <<>> THEN Resolve(o, <<>>)
                        ELSE Continue(o, [rows |-> rows, out |-> <<>>, row |-> NULL]),
                  T |-> T]
         ELSE LET k == o.pc \div 2
                  final == k = Len(o.acc.rows)
              IN IF o.pc % 2 = 0
                 THEN LET found == {r \in T.presets : r.id = o.acc.rows[k].id}
                      IN IF found = {}
                         THEN [o |-> IF final THEN Resolve(o, o.acc.out)
                                     ELSE [o EXCEPT !.pc = @ + 2], T |-> T]
                         ELSE [o |-> Continue(o, [o.acc EXCEPT !.row = CHOOSE r \in found : TRUE]),
                               T |-> T]
                 ELSE LET out == Append(o.acc.out, PresetOfRow(T, o.acc.row))
                      IN [o |-> IF final THEN Resolve(o, out)
                                ELSE Continue(o, [o.acc EXCEPT !.out = out]),
                          T |-> T]
    [] o.kind = "getPresetStats" ->
         \* Promise.all of two COUNT(*) queries
         IF o.pc = 1
         THEN [o |-> Continue(o, Cardinality(T.presets)), T |-> T]
         ELSE [o |-> Resolve(o, [totalPresets |-> o.acc,
                                 totalActivities |-> Cardinality(T.preset_activities)]),
               T |-> T]
    [] o.kind = "saveCompletedTasks" ->
         LET n == Len(o.arg)
             i == o.pc - 1
         IN IF o.pc = 1
            THEN [o |-> IF n = 0 THEN Resolve(o, "ok") ELSE Continue(o, o.acc),
                  T |-> [T EXCEPT !.completed_tasks = {}]]
            ELSE IF TaskInsertConflicts(T, o.arg[i])
            THEN [o |-> OnError(o), T |-> T]
            ELSE [o |-> IF i = n THEN Resolve(o, "ok") ELSE Continue(o, o.acc),
                  T |-> InsertTaskRow(T, o.arg[i])]
    [] o.kind = "loadCompletedTasks" ->
         \* ORDER BY created_at DESC: the order among the rows is left open
         [o |-> Resolve(o, SetToSeq({TaskOfRow(r) : r \in T.completed_tasks})), T |-> T]
    [] o.kind = "addCompletedTask" ->
         [o |-> Resolve(o, "ok"), T |-> ReplaceTaskRow(T, o.arg)]
    [] o.kind = "removeCompletedTask" ->
         [o |-> Resolve(o, "ok"), T |-> DeleteTaskRow(T, o.arg.activityId, o.arg.date)]
    [] o.kind = "savePoints" ->
         [o |-> Resolve(o, "ok"),
          T |-> UpdatePointsField(
                  UpdatePointsField(
                    UpdatePointsField(T, "total_points", o.arg.totalPoints),
                    "daily_points", o.arg.dailyPoints),
                  "last_activity_date", OrNull(o.arg.lastActivityDate))]
    [] o.kind = "updateTotalPoints" ->
         [o |-> Resolve(o, "ok"), T |-> UpdatePointsField(T, "total_points", o.arg)]
    [] o.kind = "updateDailyPoints" ->
         [o |-> Resolve(o, "ok"), T |-> UpdatePointsField(T, "daily_points", o.arg)]
    [] o.kind = "updateLastActivityDate" ->
         [o |-> Resolve(o, "ok"), T |-> UpdatePointsField(T, "last_activity_date", o.arg)]
    [] o.kind = "loadPoints" ->
         [o |-> Resolve(o, PointsOf(T)), T |-> T]

\* searchPresets calls getPresetById for each row, and getPresetById has a
\* try/catch of its own: a failed query there gives null and the row is skipped.
InnerLookupFails(o) ==
  LET k == o.pc \div 2
  IN IF k = Len(o.acc.rows) THEN Resolve(o, o.acc.out)
     ELSE [o EXCEPT !.pc = 2 * (k + 1)]

\* One statement of a running body on connection handle d ("open", "closed":
\* created but not open, or "null"). bad: the engine raises on this statement.
\* On a handle that is not open, or without the tables, every statement
\* raises; with this.db null the
\* inner getPresetById of searchPresets throws before its own try.
Stmt(o, T, d, bad) ==
  IF ~bad /\ d = "open" /\ T.schema THEN Exec(o, T)
  ELSE IF o.kind = "searchPresets" /\ o.pc > 1 /\ ~(d = "null" /\ o.pc % 2 = 0)
  THEN [o |-> InnerLookupFails(o), T |-> T]
  ELSE [o |-> OnError(o), T |-> T]

\* A whole body run to its end with nothing in between; F: the statements
\* (by pc) on which the engine raises.
RECURSIVE RunBody(_, _, _, _)
RunBody(o, T, d, F) ==
  IF Settled(o) THEN [o |-> o, T |-> T]
  ELSE LET r == Stmt(o, T, d, o.pc \in F) IN RunBody(r.o, r.T, d, F)

\* A whole call of a driver method: the `!this.db` guard, then the body.
RunCall(kind, arg, T, d, F) ==
  IF d = "null" THEN [o |-> Reject(Call(kind, arg)), T |-> T]
  ELSE RunBody([Call(kind, arg) EXCEPT !.st = "running"], T, d, F)

(* ------------------------------- state -------------------------------- *)
VARIABLES
  db,             \* SQLiteStorageService.db: "null", "closed" (created, not open) or "open"
  sqlInitialized, \* SQLiteStorageService.isInitialized
  tables,         \* the database file: the four tables
  queue,          \* the calls handed to queueOperation, in submission order
  link,           \* link[i]: the promise operationQueue held after the i-th submission
  direct,         \* the calls of the methods that run outside queueOperation
  faults,         \* failures of a store injected so far
  prefs,          \* Capacitor Preferences: key -> [set, value]
  localStorage,   \* window.localStorage, the legacy store: key -> [set, value]
  isInitialized,  \* DataPersistenceService.isInitialized
  starting,       \* the calls of DataPersistenceService.initialize() that have begun
  last,           \* the facade call that returned last: what it was given, what it gave
  view,           \* RelaxedScheduler's React state and the calls made on it
  cal             \* CalendarSyncService: its fields, its two keys of Preferences,
                  \* the clock, and the record of its last call

driverVars == <<db, sqlInitialized, tables, queue, link, direct>>
facadeVars == <<localStorage, isInitialized, starting, last>>

\* what the driver's own actions leave alone
outside == <<prefs, facadeVars, view, cal>>

vars == <<driverVars, faults, prefs, facadeVars, view, cal>>

Unset == [set |-> FALSE, value |-> <<>>]
Stored(v) == [set |-> TRUE, value |-> v]

PrefKeys ==
  {"activities", "presets", "totalPoints", "dailyPoints", "completedTasks",
   "loadedPresetId", "lastActivityDate", "calendarSyncData"}

(* -------------------- SQLiteStorageService.initialize ------------------ *)
\* How far initialize() gets: the connection cannot be created, open() throws,
\* the CREATE TABLE statements throw, the insert of the points row throws, or
\* all of it succeeds.
InitOutcomes == {"noConnection", "openFails", "createTablesFail", "pointsRowFails", "ok"}

\* migrateFromPreferences: the 'presets' blob of Preferences is copied into an
\* empty presets table, one savePreset per preset, a failed one skipped.
RECURSIVE MigratePresets(_, _, _)
MigratePresets(T, d, list) ==
  IF list = <<>> THEN T
  ELSE MigratePresets(RunCall("savePreset", Head(list), T, d, {}).T, d, Tail(list))

migrateFromPreferences(T, d, P) ==
  IF P["presets"].set /\ Parse(P["presets"].value) # <<>>
     /\ RunCall("loadPresets", <<>>, T, d, {}).o.res = <<>>
  THEN MigratePresets(T, d, Parse(P["presets"].value))
  ELSE T

\* the fields initialize() leaves behind for each outcome
AfterInitialize(outcome, d, T, P) ==
  CASE outcome = "noConnection" -> [db |-> d, init |-> FALSE, T |-> T]
    [] outcome = "openFails" -> [db |-> "closed", init |-> FALSE, T |-> T]
    [] outcome = "createTablesFail" -> [db |-> "open", init |-> FALSE, T |-> T]
    [] outcome = "pointsRowFails" ->
         [db |-> "open", init |-> FALSE, T |-> [T EXCEPT !.schema = TRUE]]
    [] outcome = "ok" ->
         [db |-> "open", init |-> TRUE,
          T |-> migrateFromPreferences(InitPointsRow([T EXCEPT !.schema = TRUE]), "open", P)]

\* initialize(): `if (this.isInitialized) return`, then as above
SqliteInitialize(outcome) ==
  /\ ~sqlInitialized
  /\ LET a == AfterInitialize(outcome, db, tables, prefs)
     IN /\ db' = a.db
        /\ sqlInitialized' = a.init
        /\ tables' = a.T
  /\ UNCHANGED <<queue, link, direct, faults, outside>>

(* ------------------------- queueOperation ------------------------------ *)
\* `const currentQueue = this.operationQueue`: the promise the i-th call is
\* chained on is the one the call before it left (Promise.resolve() for the first)
PredLinkStale(i) == "fulfilled"
PredLink(i) == IF i = 1 THEN "fulfilled" ELSE link[i - 1]

\* `.catch(() => {})`: whatever the body's outcome, the chain's promise fulfils
LinkAfterNoCatch(st) == IF st = "rejected" THEN "rejected" ELSE "fulfilled"
LinkAfter(st) == "fulfilled"

\* `await operation()` inside the callback: the chain's promise stays pending
\* until the body of call o has settled
LinkOfNoAwait(o) == "fulfilled"
LinkOf(o) == IF Settled(o) THEN LinkAfter(o.st) ELSE "pending"

\* a public method calls queueOperation(body)
Submit(kind, arg) ==
  /\ Len(queue) < MaxOps
  /\ queue' = Append(queue, Call(kind, arg))
  /\ link' = Append(link, "pending")
  /\ UNCHANGED <<db, sqlInitialized, tables, direct, faults, outside>>

\* the `.then` callback of the i-th link runs once the promise before it has
\* settled: fulfilled, the body starts (and throws at once without a
\* database); rejected, the callback is skipped and the rejection passed on
Advance(i) ==
  /\ i \in 1..Len(queue)
  /\ queue[i].st = "queued"
  /\ link[i] = "pending"
  /\ PredLink(i) # "pending"
  /\ LET o == IF PredLink(i) = "rejected" THEN queue[i]
              ELSE IF db = "null" THEN Reject(queue[i])
              ELSE [queue[i] EXCEPT !.st = "running"]
     IN /\ queue' = [queue EXCEPT ![i] = o]
        /\ link' = [link EXCEPT ![i] = IF PredLink(i) = "rejected" THEN "rejected"
                                       ELSE LinkOf(o)]
  /\ UNCHANGED <<db, sqlInitialized, tables, direct, faults, outside>>

\* the running body's next awaited statement completes
Step(i) ==
  /\ i \in 1..Len(queue)
  /\ queue[i].st = "running"
  /\ \E fault \in BOOLEAN :
       /\ fault => faults < MaxFaults
       /\ faults' = IF fault THEN faults + 1 ELSE faults
       /\ LET r == Stmt(queue[i], tables, db, fault)
          IN /\ queue' = [queue EXCEPT ![i] = r.o]
             /\ tables' = r.T
             /\ link' = [link EXCEPT ![i] = LinkOf(r.o)]
  /\ UNCHANGED <<db, sqlInitialized, direct, outside>>

(* ------------------ the methods outside queueOperation ----------------- *)
\* getPresetById, searchPresets and getPresetStats start their body at once
CallDirect(kind, arg) ==
  /\ Len(direct) < MaxDirect
  /\ direct' = Append(direct,
                 IF db = "null" THEN Reject(Call(kind, arg))
                 ELSE [Call(kind, arg) EXCEPT !.st = "running"])
  /\ UNCHANGED <<db, sqlInitialized, tables, queue, link, faults, outside>>

StepDirect(j) ==
  /\ j \in 1..Len(direct)
  /\ direct[j].st = "running"
  /\ direct[j].kind # "close"
  /\ \E fault \in BOOLEAN :
       /\ fault => faults < MaxFaults
       /\ faults' = IF fault THEN faults + 1 ELSE faults
       /\ LET r == Stmt(direct[j], tables, db, fault)
          IN direct' = [direct EXCEPT ![j] = r.o]
  /\ UNCHANGED <<db, sqlInitialized, tables, queue, link, outside>>

\* close(): with a handle, `await this.db.close()` is issued at once
CallClose ==
  /\ Len(direct) < MaxDirect
  /\ IF db = "null"
     THEN /\ direct' = Append(direct, Resolve(Call("close", <<>>), "ok"))
          /\ sqlInitialized' = FALSE
     ELSE /\ direct' = Append(direct, [Call("close", <<>>) EXCEPT !.st = "running"])
          /\ UNCHANGED sqlInitialized
  /\ UNCHANGED <<db, tables, queue, link, faults, outside>>

\* ... and once the connection has closed: this.db = null; isInitialized = false
StepClose(j) ==
  /\ j \in 1..Len(direct)
  /\ direct[j].st = "running"
  /\ direct[j].kind = "close"
  /\ direct' = [direct EXCEPT ![j] = Resolve(@, "ok")]
  /\ db' = "null"
  /\ sqlInitialized' = FALSE
  /\ UNCHANGED <<tables, queue, link, faults, outside>>

(* ------------------------------ inputs -------------------------------- *)
Preset(p, m, c, acts) == [id |-> p, mood |-> m, createdAt |-> c, activities |-> acts]

Task(t, a, d, n) == [id |-> t, activityId |-> a, date |-> d, points |-> n]

\* the presets and tasks the queue specification submits
QueuePresets ==
  {Preset("p1", "calm", 1, <<Activity("a1", "d"), Activity("a2", undefined)>>),
   Preset("p2", undefined, 2, <<Activity("a1", "")>>)}

QueueTasks == {Task("t1", "a1", "day1", 5), Task("t2", "a1", "day1", 10)}

(* ----------------- Spec: the driver and its queue ---------------------- *)
\* the state after construction: no connection, an empty database file
DriverInit ==
  /\ db = "null"
  /\ sqlInitialized = FALSE
  /\ tables = EmptyTables
  /\ queue = <<>>
  /\ link = <<>>
  /\ direct = <<>>

LegacyKeys == {"activities", "presets", "points", "completed"}

\* What goes wrong during a call: the driver methods in X.sql raise on their
\* statement X.at, Preferences.get/set raise on the keys in X.kv.
NoFault == [sql |-> {}, at |-> 1, kv |-> {}]
SqlFault(kind) == [sql |-> {kind}, at |-> 1, kv |-> {}]
KvFault(k) == [sql |-> {}, at |-> 1, kv |-> {k}]

\* the view's state when totalPoints is start and nothing is completed
ViewAt(start) ==
  [totalPoints |-> start, dailyPoints |-> 0, completedTasks |-> <<>>,
   today |-> "day1", start |-> start, calls |-> <<>>,
   seen |-> [totalPoints |-> start, dailyPoints |-> 0, completedTasks |-> <<>>],
   pending |-> <<>>]

\* CalendarSyncService as constructed (credentials = null, isConnected =
\* false) on a Preferences that holds neither of its keys; issued is the last
\* access token the token endpoint gave out, clock is `new Date()`.
CalendarInit ==
  [credentials |-> Unset, isConnected |-> FALSE,
   stored |-> [credentials |-> Unset, status |-> Unset],
   issued |-> 0, clock |-> 0,
   call |-> [op |-> "none", activities |-> <<>>, connected |-> FALSE,
             rejected |-> FALSE, res |-> FALSE, log |-> <<>>, kv |-> FALSE]]

\* the facade and the view as constructed, on stores that hold nothing
OutsideInit ==
  /\ prefs = [k \in PrefKeys |-> Unset]
  /\ localStorage = [k \in LegacyKeys |-> Unset]
  /\ isInitialized = FALSE
  /\ starting = <<>>
  /\ last = [op |-> "none", arg |-> <<>>, raised |-> FALSE, res |-> <<>>, clean |-> TRUE,
             err |-> "none", x |-> NoFault]
  /\ view = ViewAt(0)
  /\ cal = CalendarInit

Init ==
  /\ DriverInit
  /\ faults = 0
  /\ OutsideInit

SubmitAny ==
  \/ \E P \in QueuePresets : Submit("savePreset", P)
  \/ Submit("loadPresets", <<>>)
  \/ \E p \in PresetIds : Submit("deletePreset", p)
  \/ \E t \in QueueTasks : Submit("saveCompletedTasks", <<t>>)
  \/ Submit("loadCompletedTasks", <<>>)
  \/ \E t \in QueueTasks : Submit("addCompletedTask", t)
  \/ Submit("removeCompletedTask", [activityId |-> "a1", date |-> "day1"])
  \/ Submit("savePoints", [totalPoints |-> 5, dailyPoints |-> 5, lastActivityDate |-> "day1"])
  \/ Submit("loadPoints", <<>>)
  \/ Submit("updateTotalPoints", 10)
  \/ Submit("updateDailyPoints", 10)
  \/ Submit("updateLastActivityDate", "day2")

DirectAny ==
  \/ \E p \in PresetIds : CallDirect("getPresetById", p)
  \/ CallDirect("searchPresets", "calm")
  \/ CallDirect("getPresetStats", <<>>)
  \/ CallClose

Next ==
  \/ \E outcome \in InitOutcomes : SqliteInitialize(outcome)
  \/ SubmitAny
  \/ \E i \in 1..MaxOps : Advance(i)
  \/ \E i \in 1..MaxOps : Step(i)
  \/ DirectAny
  \/ \E j \in 1..MaxDirect : StepDirect(j)
  \/ \E j \in 1..MaxDirect : StepClose(j)

Spec == Init /\ [][Next]_vars

\* FairSpec: the queue alone, with the fairness the event loop gives it: the
\* callbacks of the promise chain always run, and every statement the engine
\* is given completes (with a result or an error).
SubmitSome ==
  \/ \E P \in QueuePresets : Submit("savePreset", P)
  \/ Submit("loadPresets", <<>>)
  \/ Submit("updateTotalPoints", 10)

NextDrain ==
  \/ \E outcome \in InitOutcomes : SqliteInitialize(outcome)
  \/ SubmitSome
  \/ \E i \in 1..MaxOps : Advance(i)
  \/ \E i \in 1..MaxOps : Step(i)
  \/ CallClose
  \/ \E j \in 1..MaxDirect : StepClose(j)

FairSpec ==
  /\ Init
  /\ [][NextDrain]_vars
  /\ \A i \in 1..MaxOps : WF_vars(Advance(i)) /\ WF_vars(Step(i))

Running(i) == i \in 1..Len(queue) /\ queue[i].st = "running"
Started(i) == i \in 1..Len(queue) /\ queue[i].st # "queued"
Done(i) == i \in 1..Len(queue) /\ Settled(queue[i])

\* C1: at no time are the bodies of two queued operations executing at once.
C1_MutualExclusion ==
  \A i, j \in 1..Len(queue) : Running(i) /\ Running(j) => i = j

\* C1 witness: one body is executing while another call waits in the chain
C1_Witness ==
  \E i, j \in 1..Len(queue) : Running(i) /\ queue[j].st = "queued" /\ queue[i].pc > 1

\* C2: queued operations start in submission order: when a call's body has
\* started, the body of every call submitted before it has settled.
C2_SubmissionOrder ==
  \A i, j \in 1..Len(queue) : i < j /\ Started(j) => Done(i)

\* C2 witness: the second call is executing after the first one settled
C2_Witness ==
  \E i, j \in 1..Len(queue) : i < j /\ Done(i) /\ Running(j)

\* C3: a failed operation rejects only its own promise: the chain goes on, and
\* every submitted operation eventually settles.
C3_QueueDrains ==
  \A i \in 1..MaxOps : (i <= Len(queue)) ~> Done(i)

\* C3 witness: a call resolved with its own result after the call before it
\* was rejected
C3_Witness ==
  \E i, j \in 1..Len(queue) :
    i < j /\ queue[i].st = "rejected" /\ queue[j].st = "resolved" /\ sqlInitialized

\* C4: no method touches the connection outside the queue: none of
\* getPresetById, searchPresets, getPresetStats, close runs while a queued
\* operation is in progress.
C4_NoBypass ==
  \A j \in 1..Len(direct) : direct[j].st = "running" => \A i \in 1..Len(queue) : ~Running(i)

\* C5: a loadPresets() that follows a successful savePreset(P) returns a preset
\* with P's id and P's activities, element for element and in order.  (Stated
\* for runs in which no statement failed and no unqueued call was made.)
C5_RoundTrip ==
  \A j \in 2..Len(queue) :
    ( /\ queue[j].kind = "loadPresets" /\ queue[j].st = "resolved"
      /\ queue[j - 1].kind = "savePreset" /\ queue[j - 1].st = "resolved"
      /\ faults = 0 /\ direct = <<>> )
    => \E k \in 1..Len(queue[j].res) :
         /\ queue[j].res[k].id = queue[j - 1].arg.id
         /\ queue[j].res[k].activities = queue[j - 1].arg.activities

(* ====================== DataPersistenceService ========================= *)
\* The facade's methods as functions of the stores they touch.  S is the
\* state they run on: S.db, S.sqlInit and S.T are the driver's, S.P is
\* Preferences, S.L is localStorage, S.init is the facade's isInitialized.
\* A method gives back the state it leaves, whether it raised to its caller,
\* and what it returned.  The driver's queue is empty while a method runs.
Here ==
  [db |-> db, sqlInit |-> sqlInitialized, T |-> tables, P |-> prefs,
   L |-> localStorage, init |-> isInitialized]

\* err names the error a raise carries: "sqlite" is thrown by the driver,
\* "Preferences" by Preferences.get/set; "skipped" stands for the driver not
\* being tried at all (`if (this.isInitialized)` was false)
Ret(S, res) == [S |-> S, raised |-> FALSE, res |-> res, err |-> "none"]
Raise(S, err) == [S |-> S, raised |-> TRUE, res |-> <<>>, err |-> err]

\* parseInt of a text written by points.toString()
ParseInt(text) == CHOOSE n \in (0 - MaxPoints)..MaxPoints : ToString(n) = text

Preferences_set(S, k, text, X) ==
  IF k \in X.kv THEN Raise(S, "Preferences") ELSE Ret([S EXCEPT !.P[k] = Stored(text)], "ok")

\* the result of Preferences.get: { value: null } when the key was never set
Preferences_get(S, k, X) ==
  IF k \in X.kv THEN Raise(S, "Preferences") ELSE Ret(S, S.P[k])

\* `await this.sqliteService.<kind>(arg)`, and what the facade gets from it
DriverDemoting(S, kind, arg, X) ==
  LET Awaited(r) ==
        [S |-> [S EXCEPT !.T = r.T, !.init = @ /\ r.o.st # "rejected"],
         raised |-> r.o.st = "rejected", res |-> r.o.res,
         err |-> IF r.o.st = "rejected" THEN "sqlite" ELSE "none"]
  IN Awaited(RunCall(kind, arg, S.T, S.db, IF kind \in X.sql THEN {X.at} ELSE {}))
Driver(S, kind, arg, X) ==
  LET Awaited(r) ==
        [S |-> [S EXCEPT !.T = r.T], raised |-> r.o.st = "rejected", res |-> r.o.res,
         err |-> IF r.o.st = "rejected" THEN "sqlite" ELSE "none"]
  IN Awaited(RunCall(kind, arg, S.T, S.db, IF kind \in X.sql THEN {X.at} ELSE {}))

\* "Try SQLite first only if initialized successfully"
Structured(S, kind, arg, X) ==
  IF S.init THEN Driver(S, kind, arg, X) ELSE Raise(S, "skipped")

\* "Always save to Preferences as fallback": reached unless the driver
\* returned; a raise of Preferences.set goes to the caller
OrPreferences(r, k, text, X) ==
  IF ~r.raised THEN r ELSE Preferences_set(r.S, k, text, X)

\* `result.value ? JSON.parse(result.value) : []`, [] when the get raises
ListOf(g) == IF g.raised \/ ~g.res.set THEN <<>> ELSE Parse(g.res.value)

\* "Always try Preferences fallback": reached unless the driver returned
OrListUnderThrowing(r, S, k, X) ==
  LET Got(g) == IF g.raised THEN g ELSE Ret(S, ListOf(g))
  IN IF ~r.raised THEN r ELSE Got(Preferences_get(S, k, X))
OrListUnder(r, S, k, X) ==
  IF ~r.raised THEN r ELSE Ret(S, ListOf(Preferences_get(S, k, X)))

\* the same for a field of the points: `result.value ? parseInt(result.value) : 0`
OrNumberUnder(r, S, field, k, X) ==
  LET NumberOf(g) == IF g.raised \/ ~g.res.set THEN 0 ELSE ParseInt(g.res.value)
  IN IF ~r.raised THEN Ret(S, r.res[field])
     ELSE Ret(S, NumberOf(Preferences_get(S, k, X)))

FsaveActivities(S, activities, X) ==
  Preferences_set(S, "activities", Stringify(activities), X)

\* `for (const preset of presets) await this.sqliteService.savePreset(preset)`
RECURSIVE SaveEach(_, _, _)
SaveEach(S, presets, X) ==
  LET Rest(r) == IF r.raised THEN r ELSE SaveEach(r.S, Tail(presets), X)
  IN IF presets = <<>> THEN Ret(S, "ok")
     ELSE Rest(Driver(S, "savePreset", Head(presets), X))

FsavePresets(S, presets, X) ==
  OrPreferences(IF S.init THEN SaveEach(S, presets, X) ELSE Raise(S, "skipped"),
                "presets", Stringify(presets), X)

FloadPresets(S, X) ==
  OrListUnder(Structured(S, "loadPresets", <<>>, X), S, "presets", X)

FsaveTotalPoints(S, points, X) ==
  OrPreferences(Structured(S, "updateTotalPoints", points, X),
                "totalPoints", ToString(points), X)

FloadTotalPoints(S, X) ==
  OrNumberUnder(Structured(S, "loadPoints", <<>>, X), S, "totalPoints", "totalPoints", X)

FsaveDailyPoints(S, points, X) ==
  OrPreferences(Structured(S, "updateDailyPoints", points, X),
                "dailyPoints", ToString(points), X)

FsaveLastActivityDate(S, date, X) ==
  OrPreferences(Structured(S, "updateLastActivityDate", date, X),
                "lastActivityDate", date, X)

FsaveCompletedTasks(S, completedTasks, X) ==
  OrPreferences(Structured(S, "saveCompletedTasks", completedTasks, X),
                "completedTasks", Stringify(completedTasks), X)

FloadCompletedTasks(S, X) ==
  OrListUnder(Structured(S, "loadCompletedTasks", <<>>, X), S, "completedTasks", X)

SamePair(t, activityId, date) == t.activityId = activityId /\ t.date = date

\* allTasks.filter(t => !(t.activityId === activityId && t.date === date))
WithoutPair(allTasks, activityId, date) ==
  SelectSeq(allTasks, LAMBDA t : ~SamePair(t, activityId, date))

\* `[...allTasks.filter(t => !(same activityId and date)), task]`
WithTaskUnfiltered(allTasks, task) == Append(allTasks, task)
WithTask(allTasks, task) ==
  Append(WithoutPair(allTasks, task.activityId, task.date), task)

\* addCompletedTask; "Fallback: load all tasks, add the new one, and save all"
FaddCompletedTask(S, task, X) ==
  LET InFull(r) ==
        IF ~r.raised THEN r
        ELSE FsaveCompletedTasks(
               r.S, WithTask(FloadCompletedTasks(r.S, X).res, task), X)
  IN InFull(Structured(S, "addCompletedTask", task, X))

\* removeCompletedTask; "Fallback: load all tasks, remove the target one, and
\* save all"
FremoveCompletedTask(S, activityId, date, X) ==
  LET InFull(r) ==
        IF ~r.raised THEN r
        ELSE FsaveCompletedTasks(
               r.S, WithoutPair(FloadCompletedTasks(r.S, X).res, activityId, date), X)
  IN InFull(Structured(S, "removeCompletedTask",
                       [activityId |-> activityId, date |-> date], X))

\* One save of the facade by the name of what it saves.
Fsave(S, what, v, X) ==
  CASE what = "activities" -> FsaveActivities(S, v, X)
    [] what = "presets" -> FsavePresets(S, v, X)
    [] what = "totalPoints" -> FsaveTotalPoints(S, v, X)
    [] what = "dailyPoints" -> FsaveDailyPoints(S, v, X)
    [] what = "lastActivityDate" -> FsaveLastActivityDate(S, v, X)
    [] what = "completedTasks" -> FsaveCompletedTasks(S, v, X)

\* sqliteService.initialize() as the facade sees it: it throws unless all of
\* it succeeded, and returns at once when it succeeded before
sqliteInitialize(S, outcome) ==
  LET Left(a) ==
        [S |-> [S EXCEPT !.db = a.db, !.sqlInit = a.init, !.T = a.T],
         raised |-> outcome # "ok", res |-> <<>>,
         err |-> IF outcome # "ok" THEN "sqlite" ELSE "none"]
  IN IF S.sqlInit THEN Ret(S, "ok")
     ELSE Left(AfterInitialize(outcome, S.db, S.T, S.P))

\* localStorage.removeItem
removeItemForgotten(S, k) == S
removeItem(S, k) == [S EXCEPT !.L[k] = Unset]

\* One `if (blob) { await this.save...(parsed); localStorage.removeItem(key) }`
\* of migrateFromLocalStorage: the save for the legacy key, then the
\* removeItem; a save that raised has left the try block.
MigrateKey(R, k, X) ==
  LET text == R.S.L[k].value
      ThenRemove(r) == IF r.raised THEN r ELSE Ret(removeItem(r.S, k), "ok")
  IN IF R.raised \/ ~R.S.L[k].set THEN R
     ELSE ThenRemove(
            CASE k = "activities" -> Fsave(R.S, "activities", Parse(text), X)
              [] k = "presets" -> Fsave(R.S, "presets", Parse(text), X)
              [] k = "points" -> Fsave(R.S, "totalPoints", ParseInt(text), X)
              [] k = "completed" -> Fsave(R.S, "completedTasks", Parse(text), X))

\* the four legacy keys in the order of the code; the catch logs and returns
migrateFromLocalStorage(S, X) ==
  Ret(MigrateKey(MigrateKey(MigrateKey(MigrateKey(Ret(S, "ok"),
        "activities", X), "presets", X), "points", X), "completed", X).S, "ok")

\* initialize(): the driver, then the migration, then isInitialized = true,
\* on the try path and on the catch path alike
Finitialize(S, outcome, X) ==
  IF S.init THEN Ret(S, "ok")
  ELSE Ret([migrateFromLocalStorage(sqliteInitialize(S, outcome).S, X).S
              EXCEPT !.init = TRUE], "ok")

\* savePreset: whatever the driver throws is thrown again
FsavePreset(S, preset, outcome, X) ==
  Driver(Finitialize(S, outcome, X).S, "savePreset", preset, X)

\* the clean-up of the 'presets' blob of Preferences, in both paths of deletePreset
DropFromPreferences(S, presetId, X) ==
  LET Dropped(g) ==
        IF g.raised THEN g
        ELSE IF ~g.res.set THEN Ret(S, "ok")
        ELSE Preferences_set(
               S, "presets",
               Stringify(SelectSeq(Parse(g.res.value), LAMBDA p : p.id # presetId)), X)
  IN Dropped(Preferences_get(S, "presets", X))

\* deletePreset: after the driver the clean-up is best effort; after a failure
\* of the driver the clean-up is the fallback and only its failure is thrown
FdeletePresetStrict(S, presetId, outcome, X) ==
  LET Thrown(r, c) == IF c.raised THEN Raise(c.S, c.err) ELSE Ret(c.S, "ok")
      CleanUp(r) == Thrown(r, DropFromPreferences(r.S, presetId, X))
  IN CleanUp(Driver(Finitialize(S, outcome, X).S, "deletePreset", presetId, X))
FdeletePreset(S, presetId, outcome, X) ==
  LET Thrown(r, c) == IF r.raised /\ c.raised THEN Raise(c.S, r.err) ELSE Ret(c.S, "ok")
      CleanUp(r) == Thrown(r, DropFromPreferences(r.S, presetId, X))
  IN CleanUp(Driver(Finitialize(S, outcome, X).S, "deletePreset", presetId, X))

\* getPresetById: null when the driver throws
FgetPresetById(S, presetId, outcome, X) ==
  LET NullIfThrown(r) == IF r.raised THEN Ret(r.S, <<>>) ELSE r
  IN NullIfThrown(Driver(Finitialize(S, outcome, X).S, "getPresetById", presetId, X))

\* the result of loadCalendarSyncData when nothing is stored
NoSyncData == [lastSyncDate |-> NULL, syncedActivities |-> <<>>]

\* One read of the facade by its name.  The reads of Preferences alone
\* (activities, loadedPresetId, calendarSyncData) catch what get or JSON.parse
\* throw; the reads of points and dates try loadPoints of the driver first;
\* searchPresets gives [] when the driver throws.
Fload(S, what, arg, outcome, X) ==
  LET TextOf(g) == IF g.raised \/ ~g.res.set THEN NULL ELSE OrNull(g.res.value)
      DateUnder(r) ==
        IF ~r.raised THEN Ret(S, r.res.lastActivityDate)
        ELSE Ret(S, TextOf(Preferences_get(S, "lastActivityDate", X)))
      SyncOf(g) ==
        IF g.raised \/ ~g.res.set THEN NoSyncData
        ELSE [lastSyncDate |-> OrNull(Parse(g.res.value).lastSyncDate),
              syncedActivities |-> Parse(g.res.value).syncedActivities]
      EmptyIfThrown(r) == IF r.raised THEN Ret(r.S, <<>>) ELSE r
  IN CASE what = "loadActivities" -> Ret(S, ListOf(Preferences_get(S, "activities", X)))
       [] what = "loadPresets" -> FloadPresets(S, X)
       [] what = "loadTotalPoints" -> FloadTotalPoints(S, X)
       [] what = "loadDailyPoints" ->
            OrNumberUnder(Structured(S, "loadPoints", <<>>, X), S,
                          "dailyPoints", "dailyPoints", X)
       [] what = "loadLastActivityDate" ->
            DateUnder(Structured(S, "loadPoints", <<>>, X))
       [] what = "loadCompletedTasks" -> FloadCompletedTasks(S, X)
       [] what = "loadLoadedPresetId" ->
            Ret(S, TextOf(Preferences_get(S, "loadedPresetId", X)))
       [] what = "loadCalendarSyncData" ->
            Ret(S, SyncOf(Preferences_get(S, "calendarSyncData", X)))
       [] what = "getPresetById" -> FgetPresetById(S, arg, outcome, X)
       [] what = "searchPresets" ->
            EmptyIfThrown(Driver(Finitialize(S, outcome, X).S, "searchPresets", arg, X))

\* clearAllData: Preferences.remove of each of its five keys, all started
\* before any is awaited; the call rejects when one of them does
ClearedKeys == {"activities", "presets", "totalPoints", "completedTasks", "calendarSyncData"}
FclearAllData(S, X) ==
  LET Removed == [S EXCEPT !.P = [k \in PrefKeys |->
                     IF k \in ClearedKeys \ X.kv THEN Unset ELSE S.P[k]]]
  IN IF ClearedKeys \cap X.kv # {} THEN Raise(Removed, "Preferences")
     ELSE Ret(Removed, "ok")

FsaveCalendarSyncData(S, lastSyncDate, syncedActivities, X) ==
  Preferences_set(S, "calendarSyncData",
                  Stringify([lastSyncDate |-> lastSyncDate,
                             syncedActivities |-> syncedActivities]), X)

\* importAllData: Promise.all of the five saves, taken in the order of the
\* array; all of them run, and the call rejects when one of them does
FimportAllData(S, data, X) ==
  LET Also(r, q) == IF r.raised THEN Raise(q.S, r.err) ELSE q
      WithSync(r) == Also(r, FsaveCalendarSyncData(r.S, data.lastSyncDate,
                                               data.syncedActivities, X))
      WithTasks(r) == WithSync(Also(r, FsaveCompletedTasks(r.S, data.completedTasks, X)))
      WithPoints(r) == WithTasks(Also(r, FsaveTotalPoints(r.S, data.totalPoints, X)))
      WithPresets(r) == WithPoints(Also(r, FsavePresets(r.S, data.presets, X)))
  IN WithPresets(FsaveActivities(S, data.activities, X))

\* exportAllData: the five loads and the snapshot made of them
FexportAllData(S, X) ==
  LET SyncOf(g) ==
        IF g.raised \/ ~g.res.set THEN NoSyncData
        ELSE [lastSyncDate |-> OrNull(Parse(g.res.value).lastSyncDate),
              syncedActivities |-> Parse(g.res.value).syncedActivities]
      Snapshot(calendarSyncData) ==
        Ret(S, [activities |-> ListOf(Preferences_get(S, "activities", X)),
                presets |-> FloadPresets(S, X).res,
                totalPoints |-> FloadTotalPoints(S, X).res,
                completedTasks |-> FloadCompletedTasks(S, X).res,
                lastSyncDate |-> calendarSyncData.lastSyncDate,
                syncedActivities |-> calendarSyncData.syncedActivities])
  IN Snapshot(SyncOf(Preferences_get(S, "calendarSyncData", X)))

(* --------------------- the facade's calls as actions ------------------- *)
\* the stores as a method leaves them
Stores(S) ==
  /\ db' = S.db
  /\ sqlInitialized' = S.sqlInit
  /\ tables' = S.T
  /\ prefs' = S.P
  /\ localStorage' = S.L
  /\ isInitialized' = S.init

\* a failure during a call counts against MaxFaults
Injected(X) ==
  /\ X # NoFault => faults < MaxFaults
  /\ faults' = IF X # NoFault THEN faults + 1 ELSE faults

\* A call of the facade returns R: the stores after it, and the record of the
\* call: op and arg are the method and its argument, x is what failed during
\* the call (clean: nothing did), err is the error the caller caught.
Returns(op, arg, R, X) ==
  /\ Injected(X)
  /\ Stores(R.S)
  /\ last' = [op |-> op, arg |-> arg, raised |-> R.raised, res |-> R.res,
              clean |-> X = NoFault, err |-> R.err, x |-> X]
  /\ UNCHANGED <<queue, link, direct, starting, view, cal>>

\* the calls of initialize() that do something: isInitialized is false
FacadeInitialize(outcome, X) ==
  /\ ~isInitialized
  /\ Returns("initialize", localStorage, Finitialize(Here, outcome, X), X)

(* ------------- SpecFacade: presets, points and the migration ----------- *)
\* what an earlier version of the application left in localStorage
LegacyBlob(k) ==
  CASE k = "activities" -> Stringify(<<Activity("a1", "d")>>)
    [] k = "presets" -> Stringify(<<Preset("p1", "calm", 1, <<Activity("a1", "d")>>)>>)
    [] k = "points" -> ToString(10)
    [] k = "completed" -> Stringify(<<Task("t1", "a1", "day1", 5)>>)

FacadeInit ==
  /\ DriverInit
  /\ faults = 0
  /\ prefs = [k \in PrefKeys |-> Unset]
  /\ \E present \in SUBSET LegacyKeys :
       localStorage =
         [k \in LegacyKeys |-> IF k \in present THEN Stored(LegacyBlob(k)) ELSE Unset]
  /\ isInitialized = FALSE
  /\ starting = <<>>
  /\ last = [op |-> "none", arg |-> <<>>, raised |-> FALSE, res |-> <<>>, clean |-> TRUE,
             err |-> "none", x |-> NoFault]
  /\ view = ViewAt(0)
  /\ cal = CalendarInit

PresetFaults ==
  {NoFault, SqlFault("savePreset"), SqlFault("deletePreset"), SqlFault("loadPresets"),
   SqlFault("updateTotalPoints"), KvFault("presets"), KvFault("totalPoints")}

\* initialize() is reached only while isInitialized is false
OutcomesNow == IF isInitialized THEN {"ok"} ELSE InitOutcomes

NextFacade ==
  \/ \E outcome \in InitOutcomes, X \in PresetFaults : FacadeInitialize(outcome, X)
  \/ \E presets \in {<<>>, Parse(LegacyBlob("presets")), SetToSeq(QueuePresets)},
        X \in PresetFaults :
       Returns("savePresets", presets, FsavePresets(Here, presets, X), X)
  \/ \E X \in PresetFaults : Returns("loadPresets", <<>>, FloadPresets(Here, X), X)
  \/ \E P \in QueuePresets, outcome \in OutcomesNow, X \in PresetFaults :
       Returns("savePreset", P, FsavePreset(Here, P, outcome, X), X)
  \/ \E outcome \in OutcomesNow, X \in PresetFaults :
       Returns("deletePreset", "p1", FdeletePreset(Here, "p1", outcome, X), X)
  \/ \E outcome \in OutcomesNow, X \in PresetFaults :
       Returns("getPresetById", "p1", FgetPresetById(Here, "p1", outcome, X), X)
  \/ \E X \in PresetFaults :
       Returns("saveTotalPoints", 5, FsaveTotalPoints(Here, 5, X), X)
  \/ \E X \in PresetFaults : Returns("loadTotalPoints", <<>>, FloadTotalPoints(Here, X), X)
  \/ \E X \in PresetFaults :
       Returns("loadCompletedTasks", <<>>, FloadCompletedTasks(Here, X), X)

SpecFacade == FacadeInit /\ [][NextFacade]_vars

(* ---------------- SpecTasks: the completed tasks ----------------------- *)
TaskFaults ==
  {NoFault, SqlFault("addCompletedTask"), SqlFault("removeCompletedTask"),
   SqlFault("loadCompletedTasks"), KvFault("completedTasks"),
   [sql |-> {"saveCompletedTasks"}, at |-> 2, kv |-> {}]}

FacadeTasks ==
  {Task("t1", "a1", "day1", 5), Task("t2", "a1", "day1", 10),
   Task("t3", "a2", "day1", 5), Task("t1", "a2", "day2", 5)}

NextTasks ==
  \/ \E outcome \in InitOutcomes, X \in TaskFaults : FacadeInitialize(outcome, X)
  \/ \E task \in FacadeTasks, X \in TaskFaults :
       Returns("addCompletedTask", task, FaddCompletedTask(Here, task, X), X)
  \/ \E a \in ActivityIds, d \in Dates, X \in TaskFaults :
       Returns("removeCompletedTask", [activityId |-> a, date |-> d],
               FremoveCompletedTask(Here, a, d, X), X)
  \/ \E X \in TaskFaults :
       Returns("loadCompletedTasks", <<>>, FloadCompletedTasks(Here, X), X)

SpecTasks == FacadeInit /\ [][NextTasks]_vars

(* -------- SpecStores: every write and every read of the facade --------- *)
\* the writes that try the driver first, the driver method each one calls and
\* the key of Preferences it falls back to
FacadeWrites ==
  [savePresets |-> <<"savePreset", "presets">>,
   saveTotalPoints |-> <<"updateTotalPoints", "totalPoints">>,
   saveDailyPoints |-> <<"updateDailyPoints", "dailyPoints">>,
   saveLastActivityDate |-> <<"updateLastActivityDate", "lastActivityDate">>,
   saveCompletedTasks |-> <<"saveCompletedTasks", "completedTasks">>]

\* the reads, the driver method each one calls ("" for none) and the key of
\* Preferences it reads ("" for none)
FacadeReads ==
  [loadActivities |-> <<"", "activities">>,
   loadPresets |-> <<"loadPresets", "presets">>,
   loadTotalPoints |-> <<"loadPoints", "totalPoints">>,
   loadDailyPoints |-> <<"loadPoints", "dailyPoints">>,
   loadLastActivityDate |-> <<"loadPoints", "lastActivityDate">>,
   loadCompletedTasks |-> <<"loadCompletedTasks", "completedTasks">>,
   loadLoadedPresetId |-> <<"", "loadedPresetId">>,
   loadCalendarSyncData |-> <<"", "calendarSyncData">>,
   getPresetById |-> <<"getPresetById", "">>,
   searchPresets |-> <<"searchPresets", "">>]

\* what the calls of SpecStores write under each name
Saved(what) ==
  CASE what = "presets" -> <<Preset("p1", "calm", 1, <<Activity("a1", "d")>>)>>
    [] what = "totalPoints" -> 5
    [] what = "dailyPoints" -> 5
    [] what = "lastActivityDate" -> "day1"
    [] what = "completedTasks" -> <<Task("t1", "a1", "day1", 5)>>

\* Preferences outlives the process: the keys that only Preferences holds are
\* as an earlier session left them, all absent or all written
StoresInit ==
  /\ DriverInit
  /\ faults = 0
  /\ \E kept \in {{}, {"activities", "loadedPresetId", "calendarSyncData"}} :
       prefs =
         [k \in PrefKeys |->
            IF k \notin kept THEN Unset
            ELSE CASE k = "activities" -> Stored(Stringify(<<Activity("a1", "d")>>))
                   [] k = "loadedPresetId" -> Stored("p1")
                   [] k = "calendarSyncData" ->
                        Stored(Stringify([lastSyncDate |-> "day1",
                                          syncedActivities |-> <<"a1">>]))]
  /\ localStorage = [k \in LegacyKeys |-> Unset]
  /\ isInitialized = FALSE
  /\ starting = <<>>
  /\ last = [op |-> "none", arg |-> <<>>, raised |-> FALSE, res |-> <<>>, clean |-> TRUE,
             err |-> "none", x |-> NoFault]
  /\ view = ViewAt(0)
  /\ cal = CalendarInit

\* nothing fails, every statement of the driver fails, every access to
\* Preferences fails, or both do
StoreFaults ==
  {[sql |-> s, at |-> 1, kv |-> k] :
     s \in {{}, ({FacadeWrites[w][1] : w \in DOMAIN FacadeWrites}
                 \cup {FacadeReads[r][1] : r \in DOMAIN FacadeReads}) \ {""}},
     k \in {{}, PrefKeys}}

NextStores ==
  \/ \E outcome \in InitOutcomes, X \in StoreFaults : FacadeInitialize(outcome, X)
  \/ \E w \in DOMAIN FacadeWrites, X \in StoreFaults :
       Returns(w, Saved(FacadeWrites[w][2]),
               Fsave(Here, FacadeWrites[w][2], Saved(FacadeWrites[w][2]), X), X)
  \/ \E what \in DOMAIN FacadeReads, outcome \in OutcomesNow, X \in StoreFaults :
       Returns(what, IF what = "getPresetById" THEN "p1" ELSE "calm",
               Fload(Here, what, IF what = "getPresetById" THEN "p1" ELSE "calm",
                     outcome, X), X)
  \/ \E X \in StoreFaults : Returns("clearAllData", <<>>, FclearAllData(Here, X), X)

SpecStores == StoresInit /\ [][NextStores]_vars

(* ------------------- SpecImport: export and import --------------------- *)
\* the snapshots (AppData) given to importAllData
ImportData ==
  {[activities |-> <<Activity("a2", "d")>>,
    presets |-> <<Preset("p2", "calm", 2, <<Activity("a2", "d")>>)>>,
    totalPoints |-> 7, dailyPoints |-> 3,
    completedTasks |-> <<Task("t2", "a2", "day2", 5)>>,
    lastSyncDate |-> "day2", syncedActivities |-> <<"a2">>,
    loadedPresetId |-> "p2", lastActivityDate |-> "day2"],
   [activities |-> <<>>, presets |-> <<>>, totalPoints |-> 0, dailyPoints |-> 0,
    completedTasks |-> <<>>, lastSyncDate |-> NULL, syncedActivities |-> <<>>,
    loadedPresetId |-> NULL, lastActivityDate |-> NULL]}

NextImport ==
  \/ \E outcome \in InitOutcomes, X \in StoreFaults : FacadeInitialize(outcome, X)
  \/ \E w \in {"savePresets", "saveTotalPoints", "saveCompletedTasks"}, X \in StoreFaults :
       Returns(w, Saved(FacadeWrites[w][2]),
               Fsave(Here, FacadeWrites[w][2], Saved(FacadeWrites[w][2]), X), X)
  \/ \E data \in ImportData, X \in StoreFaults :
       Returns("importAllData", data, FimportAllData(Here, data, X), X)
  \/ \E X \in StoreFaults : Returns("exportAllData", <<>>, FexportAllData(Here, X), X)

SpecImport == StoresInit /\ [][NextImport]_vars

(* --------------- SpecRestart: presets across restarts ------------------ *)
\* the lists given to savePresets: none, or preset p1 alone
PresetLists == {<<>>, <<Preset("p1", "calm", 1, <<Activity("a1", "d")>>)>>}

\* a new process: both services are as constructed, the database file,
\* Preferences and localStorage are as the last session left them
Restarted(S) == [S EXCEPT !.db = "null", !.sqlInit = FALSE, !.init = FALSE]

\* the start of the application: initialize(), then loadPresets()
FMount(S, outcome, X) ==
  LET Loaded(r) == Ret(r.S, FloadPresets(r.S, X).res)
  IN Loaded(Finitialize(Restarted(S), outcome, X))

RestartFaults ==
  {NoFault, SqlFault("savePreset"), SqlFault("deletePreset"), KvFault("presets")}

NextRestart ==
  \/ \E outcome \in InitOutcomes, X \in RestartFaults :
       Returns("mount", <<>>, FMount(Here, outcome, X), X)
  \/ \E presets \in PresetLists, X \in RestartFaults :
       Returns("savePresets", presets, FsavePresets(Here, presets, X), X)
  \/ \E p \in PresetIds, outcome \in OutcomesNow, X \in RestartFaults :
       Returns("deletePreset", p, FdeletePreset(Here, p, outcome, X), X)

SpecRestart == StoresInit /\ [][NextRestart]_vars

(* ---------- SpecStart: initialize() called while it is running --------- *)
\* starting[i] is the i-th call of initialize() that passed
\* `if (this.isInitialized) return`: pc is where it waits ("sqlite": on
\* sqliteService.initialize(); "migrate": on a save of the migration, or about
\* to set isInitialized), body says that the driver's initialize() passed its
\* own guard for this call; blobs are the four values the call read from
\* localStorage, todo the keys it has still to save, saved the keys it saved.
MaxStarting == 2

LegacyOrder == <<"activities", "presets", "points", "completed">>

\* initialize() up to its first await: the facade's guard, and the driver's
InitializeCalled ==
  /\ ~isInitialized
  /\ Len(starting) < MaxStarting
  /\ starting' = Append(starting,
       [pc |-> "sqlite", body |-> ~sqlInitialized,
        blobs |-> [k \in LegacyKeys |-> Unset], todo |-> <<>>, saved |-> <<>>])
  /\ UNCHANGED <<driverVars, faults, prefs, localStorage, isInitialized, last, view, cal>>

\* sqliteService.initialize() settles for call i, and migrateFromLocalStorage
\* reads the four keys
SqliteSettles(i, outcome) ==
  LET c == starting[i]
      Opened == IF c.body THEN sqliteInitialize([Here EXCEPT !.sqlInit = FALSE], outcome)
                ELSE Ret(Here, "ok")
  IN /\ c.pc = "sqlite"
     /\ ~c.body => outcome = "ok"
     /\ Stores(Opened.S)
     /\ starting' = [starting EXCEPT ![i] =
          [c EXCEPT !.pc = "migrate", !.blobs = localStorage,
                    !.todo = SelectSeq(LegacyOrder, LAMBDA k : localStorage[k].set)]]
     /\ UNCHANGED <<queue, link, direct, faults, last, view, cal>>

\* the save of one legacy blob by call i settles, and the key is removed
SaveSettles(i) ==
  LET c == starting[i]
      k == Head(c.todo)
      Kept(r) == IF r.raised THEN [r.S EXCEPT !.L[k] = localStorage[k]] ELSE r.S
      Settles(r) ==
        /\ Stores(Kept(r))
        /\ starting' = [starting EXCEPT ![i] =
             [c EXCEPT !.todo = IF r.raised THEN <<>> ELSE Tail(@),
                       !.saved = IF r.raised THEN @ ELSE Append(@, k)]]
  IN /\ c.pc = "migrate"
     /\ c.todo # <<>>
     /\ Settles(MigrateKey(Ret([Here EXCEPT !.L[k] = c.blobs[k]], "ok"), k, NoFault))
     /\ UNCHANGED <<queue, link, direct, faults, last, view, cal>>

\* `this.isInitialized = true`, on the try path and the catch path
InitializeReturns(i) ==
  /\ starting[i].pc = "migrate"
  /\ starting[i].todo = <<>>
  /\ isInitialized' = TRUE
  /\ starting' = [starting EXCEPT ![i].pc = "done"]
  /\ UNCHANGED <<driverVars, faults, prefs, localStorage, last, view, cal>>

NextStart ==
  \/ InitializeCalled
  \/ \E i \in 1..Len(starting), outcome \in InitOutcomes : SqliteSettles(i, outcome)
  \/ \E i \in 1..Len(starting) : SaveSettles(i)
  \/ \E i \in 1..Len(starting) : InitializeReturns(i)

SpecStart == FacadeInit /\ [][NextStart]_vars

(* ========================= RelaxedScheduler ============================ *)
\* view.totalPoints, view.dailyPoints and view.completedTasks are the React
\* state; view.seen holds the values of the last render, which are the ones
\* the handlers close over; view.today is `new Date().toDateString()`;
\* view.start is totalPoints as loaded and view.calls lists the calls of
\* completeTask and uncompleteTask made since.

\* `setX(prev => prev + delta)`: the update is computed from the state at the
\* time it is applied, not from the value the handler's render saw
UpdatedFromRender(state, rendered, delta) == rendered + delta
Updated(state, rendered, delta) == state + delta

\* The try block of completeTask and uncompleteTask after its first call r:
\* the saves in turn; the first call that raises ends the block.
RECURSIVE SaveInTurn(_, _, _)
SaveInTurn(r, saves, X) ==
  IF r.raised \/ saves = <<>> THEN r
  ELSE SaveInTurn(Fsave(r.S, Head(saves).what, Head(saves).v, X), Tail(saves), X)

\* The effects that save after a render, each a call of its own, in the
\* order the component declares them.
RECURSIVE Effects(_, _, _)
Effects(S, saves, X) ==
  IF saves = <<>> THEN S
  ELSE Effects(Fsave(S, Head(saves).what, Head(saves).v, X).S, Tail(saves), X)

\* `id: Date.now().toString()`: the clock moves on between two calls
NewTask(activityId, points) ==
  Task(ToString(Len(view.calls) + 1), activityId, view.today, points)

\* completedTasks.find(task => same activityId and today), on the list rendered
existingTask(activityId) ==
  \E i \in 1..Len(view.seen.completedTasks) :
    SamePair(view.seen.completedTasks[i], activityId, view.today)

completeTask(activityId, points, X) ==
  /\ Len(view.calls) < MaxCalls
  /\ IF existingTask(activityId)
     THEN /\ X = NoFault
          /\ view' = [view EXCEPT !.calls = Append(@,
               [op |-> "completeTask", activityId |-> activityId,
                date |-> view.today, points |-> points])]
          /\ UNCHANGED <<db, sqlInitialized, tables, prefs, localStorage, isInitialized, faults>>
     ELSE /\ Injected(X)
          /\ view' = [view EXCEPT
               !.completedTasks = Append(view.seen.completedTasks, NewTask(activityId, points)),
               !.totalPoints = Updated(@, view.seen.totalPoints, points),
               !.dailyPoints = Updated(@, view.seen.dailyPoints, points),
               !.calls = Append(@,
                 [op |-> "completeTask", activityId |-> activityId,
                  date |-> view.today, points |-> points])]
          /\ Stores(SaveInTurn(
               FaddCompletedTask(Here, NewTask(activityId, points), X),
               <<[what |-> "totalPoints", v |-> view.seen.totalPoints + points],
                 [what |-> "dailyPoints", v |-> view.seen.dailyPoints + points],
                 [what |-> "lastActivityDate", v |-> view.today]>>, X).S)
  /\ UNCHANGED <<queue, link, direct, starting, last, cal>>

uncompleteTask(activityId, points, X) ==
  /\ Len(view.calls) < MaxCalls
  /\ Injected(X)
  /\ view' = [view EXCEPT
       !.completedTasks = WithoutPair(view.seen.completedTasks, activityId, view.today),
       !.totalPoints = Updated(@, view.seen.totalPoints, 0 - points),
       !.dailyPoints = Updated(@, view.seen.dailyPoints, 0 - points),
       !.calls = Append(@,
         [op |-> "uncompleteTask", activityId |-> activityId,
          date |-> view.today, points |-> points])]
  /\ Stores(SaveInTurn(
       FremoveCompletedTask(Here, activityId, view.today, X),
       <<[what |-> "totalPoints", v |-> view.seen.totalPoints - points],
         [what |-> "dailyPoints", v |-> view.seen.dailyPoints - points],
         [what |-> "lastActivityDate", v |-> view.today]>>, X).S)
  /\ UNCHANGED <<queue, link, direct, starting, last, cal>>

\* React renders the component again after the state changed: the handlers
\* are made anew over the new values, and the effects of the values that
\* changed run
Render(X) ==
  /\ view.seen # [totalPoints |-> view.totalPoints, dailyPoints |-> view.dailyPoints,
                  completedTasks |-> view.completedTasks]
  /\ Injected(X)
  /\ view' = [view EXCEPT !.seen = [totalPoints |-> view.totalPoints,
                                    dailyPoints |-> view.dailyPoints,
                                    completedTasks |-> view.completedTasks]]
  /\ Stores(Effects(Here,
       SelectSeq(
         <<[what |-> "totalPoints", v |-> view.totalPoints,
            changed |-> view.totalPoints # view.seen.totalPoints],
           [what |-> "completedTasks", v |-> view.completedTasks,
            changed |-> view.completedTasks # view.seen.completedTasks],
           [what |-> "dailyPoints", v |-> view.dailyPoints,
            changed |-> view.dailyPoints # view.seen.dailyPoints]>>,
         LAMBDA e : e.changed), X))
  /\ UNCHANGED <<queue, link, direct, starting, last, cal>>

\* midnight passes
NextDay ==
  /\ view.today = "day1"
  /\ view' = [view EXCEPT !.today = "day2"]
  /\ UNCHANGED <<driverVars, faults, prefs, facadeVars, cal>>

(* ------------------- SpecView: completing tasks ------------------------ *)
\* the stores before the application has run
Blank ==
  [db |-> "null", sqlInit |-> FALSE, T |-> EmptyTables,
   P |-> [k \in PrefKeys |-> Unset], L |-> [k \in LegacyKeys |-> Unset], init |-> FALSE]

\* the application as initializeApp leaves it: the facade initialized, with
\* or without the driver, and totalPoints as loaded from it
ViewInit ==
  /\ queue = <<>> /\ link = <<>> /\ direct = <<>>
  /\ faults = 0
  /\ cal = CalendarInit
  /\ starting = <<>>
  /\ last = [op |-> "none", arg |-> <<>>, raised |-> FALSE, res |-> <<>>, clean |-> TRUE,
             err |-> "none", x |-> NoFault]
  /\ \E outcome \in {"ok", "noConnection"}, start \in {0, 10} :
       LET Loaded(S) ==
             /\ db = S.db
             /\ sqlInitialized = S.sqlInit
             /\ tables = S.T
             /\ prefs = S.P
             /\ localStorage = S.L
             /\ isInitialized = S.init
             /\ view = ViewAt(FloadTotalPoints(S, NoFault).res)
       IN Loaded(FsaveTotalPoints(Finitialize(Blank, outcome, NoFault).S,
                                  start, NoFault).S)

\* the activities on screen, with their points
ViewActivities == {[id |-> "a1", points |-> 10], [id |-> "a2", points |-> 5]}

ViewFaults == {NoFault, SqlFault("addCompletedTask"), KvFault("totalPoints")}

NextView ==
  \/ \E a \in ViewActivities, X \in ViewFaults : completeTask(a.id, a.points, X)
  \/ \E a \in ViewActivities, X \in ViewFaults : uncompleteTask(a.id, a.points, X)
  \/ \E X \in ViewFaults : Render(X)
  \/ NextDay

SpecView == ViewInit /\ [][NextView]_vars

(* ------------- SpecSettle: the saves as they are queued ---------------- *)
\* view.pending holds the calls of the facade that were made and have not
\* settled, in the order they were made; `then` is what the caller does after
\* the call resolved (the rest of the try block of a handler; nothing for an
\* effect). The calls settle in the order they were made (operationQueue).
\* the calls of completeTask and uncompleteTask that are followed to the end
MaxStarts == 2

Rendered ==
  [totalPoints |-> view.totalPoints, dailyPoints |-> view.dailyPoints,
   completedTasks |-> view.completedTasks]

Pending(what, v, then) == [what |-> what, v |-> v, then |-> then]

\* completeTask up to its first await
completeTaskStarts(activityId, points) ==
  /\ Len(view.calls) < MaxStarts
  /\ ~existingTask(activityId)
  /\ view' = [view EXCEPT
       !.completedTasks = Append(view.seen.completedTasks, NewTask(activityId, points)),
       !.totalPoints = Updated(@, view.seen.totalPoints, points),
       !.dailyPoints = Updated(@, view.seen.dailyPoints, points),
       !.calls = Append(@,
         [op |-> "completeTask", activityId |-> activityId,
          date |-> view.today, points |-> points]),
       !.pending = Append(@,
         Pending("addCompletedTask", NewTask(activityId, points),
           <<[what |-> "totalPoints", v |-> view.seen.totalPoints + points],
             [what |-> "dailyPoints", v |-> view.seen.dailyPoints + points],
             [what |-> "lastActivityDate", v |-> view.today]>>))]
  /\ UNCHANGED <<driverVars, faults, prefs, facadeVars, cal>>

\* uncompleteTask up to its first await
uncompleteTaskStarts(activityId, points) ==
  /\ Len(view.calls) < MaxStarts
  /\ view' = [view EXCEPT
       !.completedTasks = WithoutPair(view.seen.completedTasks, activityId, view.today),
       !.totalPoints = Updated(@, view.seen.totalPoints, 0 - points),
       !.dailyPoints = Updated(@, view.seen.dailyPoints, 0 - points),
       !.calls = Append(@,
         [op |-> "uncompleteTask", activityId |-> activityId,
          date |-> view.today, points |-> points]),
       !.pending = Append(@,
         Pending("removeCompletedTask", [activityId |-> activityId, date |-> view.today],
           <<[what |-> "totalPoints", v |-> view.seen.totalPoints - points],
             [what |-> "dailyPoints", v |-> view.seen.dailyPoints - points],
             [what |-> "lastActivityDate", v |-> view.today]>>))]
  /\ UNCHANGED <<driverVars, faults, prefs, facadeVars, cal>>

\* the effects of a render, each up to its await
EffectsStart ==
  LET Saving(e) == Pending(e.what, e.v, <<>>)
      Changed ==
        SelectSeq(
          <<[what |-> "totalPoints", v |-> view.totalPoints,
             changed |-> view.totalPoints # view.seen.totalPoints],
            [what |-> "completedTasks", v |-> view.completedTasks,
             changed |-> view.completedTasks # view.seen.completedTasks],
            [what |-> "dailyPoints", v |-> view.dailyPoints,
             changed |-> view.dailyPoints # view.seen.dailyPoints]>>,
          LAMBDA e : e.changed)
  IN /\ view.seen # Rendered
     /\ view' = [view EXCEPT
          !.seen = Rendered,
          !.pending = @ \o [i \in 1..Len(Changed) |-> Saving(Changed[i])]]
     /\ UNCHANGED <<driverVars, faults, prefs, facadeVars, cal>>

\* one call of the facade as a handler or an effect makes it
PersistenceCall(S, c, X) ==
  CASE c.what = "addCompletedTask" -> FaddCompletedTask(S, c.v, X)
    [] c.what = "removeCompletedTask" ->
         FremoveCompletedTask(S, c.v.activityId, c.v.date, X)
    [] OTHER -> Fsave(S, c.what, c.v, X)

\* the oldest call settles, and its caller goes on to its next call, which
\* joins the queue behind the calls made meanwhile
Settle(X) ==
  LET c == Head(view.pending)
      GoesOn(r) ==
        IF r.raised \/ c.then = <<>> THEN <<>>
        ELSE <<Pending(Head(c.then).what, Head(c.then).v, Tail(c.then))>>
      Settles(r) ==
        /\ Stores(r.S)
        /\ view' = [view EXCEPT !.pending = Tail(@) \o GoesOn(r)]
  IN /\ view.pending # <<>>
     /\ Injected(X)
     /\ Settles(PersistenceCall(Here, c, X))
     /\ UNCHANGED <<queue, link, direct, starting, last, cal>>

SettleFaults == {NoFault, SqlFault("updateTotalPoints"), KvFault("totalPoints")}

NextSettle ==
  \/ \E a \in ViewActivities : completeTaskStarts(a.id, a.points)
  \/ \E a \in ViewActivities : uncompleteTaskStarts(a.id, a.points)
  \/ EffectsStart
  \/ \E X \in SettleFaults : Settle(X)

SpecSettle == ViewInit /\ [][NextSettle]_vars

(* -------------------------- C6, C8, C9, C10 ---------------------------- *)
UniquePairs(list) ==
  \A i, j \in 1..Len(list) :
    SamePair(list[i], list[j].activityId, list[j].date) => i = j

\* C6: after any sequence of the facade's addCompletedTask and
\* removeCompletedTask, with the driver initialized or not, each store of the
\* completed tasks (the completed_tasks table, the 'completedTasks' list of
\* Preferences) and the list the facade loads hold at most one task for each
\* (activityId, date) pair.
C6_AtMostOnePerPair ==
  /\ \A r1, r2 \in tables.completed_tasks :
       (r1.activity_id = r2.activity_id /\ r1.date = r2.date) => r1 = r2
  /\ UniquePairs(ListOf(Preferences_get(Here, "completedTasks", NoFault)))
  /\ UniquePairs(FloadCompletedTasks(Here, NoFault).res)

\* the fallback has replaced the task of a pair: t2 was added for (a1, day1)
\* after t3, in a session without the driver, and is the only task of its pair
C6_Witness ==
  /\ isInitialized /\ ~sqlInitialized
  /\ last.op = "addCompletedTask" /\ ~last.raised
  /\ last.arg = Task("t2", "a1", "day1", 10)
  /\ ListOf(Preferences_get(Here, "completedTasks", NoFault))
       = <<Task("t3", "a2", "day1", 5), Task("t2", "a1", "day1", 10)>>

PresetOps == {"savePresets", "savePreset", "loadPresets", "deletePreset", "getPresetById"}

\* C8: once the facade is initialized with the driver's initialize() failed,
\* a preset operation of the facade during which nothing else fails does not
\* raise to its caller.
C8_NoRaiseAfterFailedInit ==
  (isInitialized /\ ~sqlInitialized /\ last.op \in PresetOps /\ last.clean)
    => ~last.raised

\* the state the run of the migration inside initialize() has left
AfterMigration == [Here EXCEPT !.init = FALSE]

NoLegacyKey == \A k \in LegacyKeys : ~localStorage[k].set

C10_LoadsReturnMigrated ==
  (last.op = "initialize" /\ last.clean) =>
    /\ last.arg["presets"].set =>
         FloadPresets(Here, NoFault).res = Parse(last.arg["presets"].value)
    /\ last.arg["points"].set =>
         FloadTotalPoints(Here, NoFault).res = ParseInt(last.arg["points"].value)
    /\ last.arg["completed"].set =>
         FloadCompletedTasks(Here, NoFault).res = Parse(last.arg["completed"].value)

(* -------------------------------- C7 ----------------------------------- *)
Completions == SelectSeq(view.calls, LAMBDA c : c.op = "completeTask")
Uncompletions == SelectSeq(view.calls, LAMBDA c : c.op = "uncompleteTask")

DistinctPairs(cs) ==
  \A i, j \in 1..Len(cs) : SamePair(cs[i], cs[j].activityId, cs[j].date) => i = j

RECURSIVE SumOfPoints(_)
SumOfPoints(cs) == IF cs = <<>> THEN 0 ELSE Head(cs).points + SumOfPoints(Tail(cs))

\* C7: when the completions made so far are of distinct (activity, date) pairs
\* and so are the un-completions, totalPoints is its starting value plus the
\* points of the completions minus the points of the un-completions.
C7_Additive ==
  (DistinctPairs(Completions) /\ DistinctPairs(Uncompletions)) =>
    view.totalPoints = view.start + SumOfPoints(Completions) - SumOfPoints(Uncompletions)

\* complete 10, complete 5, uncomplete the first: 5 more than at the start
C7_Witness ==
  /\ Len(view.calls) = 3
  /\ view.calls[1].op = "completeTask" /\ view.calls[1].points = 10
  /\ view.calls[2].op = "completeTask" /\ view.calls[2].points = 5
  /\ view.calls[3].op = "uncompleteTask" /\ view.calls[3].activityId = view.calls[1].activityId
  /\ view.calls[3].date = view.calls[1].date
  /\ view.totalPoints = view.start + 5

(* ================= the facade when its stores fail ===================== *)
\* C11: when a write of the facade that tries the driver first (savePresets,
\* saveTotalPoints, saveDailyPoints, saveLastActivityDate, saveCompletedTasks)
\* raises to its caller on a ready facade, the driver and Preferences both
\* failed and the error raised is the one the driver threw.
C11_RaisesOriginalError ==
  (isInitialized /\ last.op \in DOMAIN FacadeWrites /\ last.raised)
    => /\ FacadeWrites[last.op][1] \in last.x.sql \/ db # "open" \/ ~tables.schema
       /\ last.x.kv # {}
       /\ last.err = "sqlite"

\* The driver gave the last read its answer: the facade was ready, the
\* connection was open on created tables and the query did not fail.
DriverAnswered ==
  /\ isInitialized /\ db = "open" /\ tables.schema
  /\ FacadeReads[last.op][1] \notin last.x.sql \cup {""}

\* the default of each read: [] for lists, 0 for points, null for ids, dates
\* and the preset of getPresetById
DefaultOf(op) ==
  CASE op \in {"loadTotalPoints", "loadDailyPoints"} -> 0
    [] op \in {"loadLastActivityDate", "loadLoadedPresetId"} -> NULL
    [] op = "loadCalendarSyncData" -> NoSyncData
    [] OTHER -> <<>>

\* C12: no read of the facade (loadActivities, loadPresets, loadTotalPoints,
\* loadDailyPoints, loadLastActivityDate, loadCompletedTasks,
\* loadLoadedPresetId, loadCalendarSyncData, getPresetById, searchPresets)
\* raises, and when neither the driver nor Preferences gave an answer the
\* read returns the default of its kind.
C12_ReadsNeverRaise ==
  last.op \in DOMAIN FacadeReads =>
    /\ ~last.raised
    /\ (~DriverAnswered /\ (last.x.kv # {} \/ FacadeReads[last.op][2] = ""))
         => last.res = DefaultOf(last.op)

\* loadPresets after both stores failed, while Preferences holds presets
C12_Witness ==
  /\ last.op = "loadPresets" /\ isInitialized /\ db = "null"
  /\ last.x.kv # {} /\ prefs["presets"].set
  /\ last.res = <<>> /\ ~last.raised

\* what Preferences holds for the kind a read is about, as the fallback of
\* the read converts it
HeldInPreferences(op) ==
  LET text == prefs[FacadeReads[op][2]].value
  IN CASE op \in {"loadPresets", "loadCompletedTasks"} -> Parse(text)
       [] op \in {"loadTotalPoints", "loadDailyPoints"} -> ParseInt(text)
       [] op = "loadLastActivityDate" -> text

\* C13: when the driver's read fails on a ready facade, loadPresets,
\* loadCompletedTasks, loadTotalPoints, loadDailyPoints and
\* loadLastActivityDate return what Preferences holds for their kind.
C13_FallsBackOnFailedRead ==
  ( /\ last.op \in {"loadPresets", "loadCompletedTasks", "loadTotalPoints",
                    "loadDailyPoints", "loadLastActivityDate"}
    /\ isInitialized /\ ~DriverAnswered
    /\ last.x.kv = {} /\ prefs[FacadeReads[last.op][2]].set )
    => last.res = HeldInPreferences(last.op)

\* the driver's deletePreset of the last call went through
DeletedInDriver == db = "open" /\ tables.schema /\ "deletePreset" \notin last.x.sql

\* the ids of the presets in the 'presets' list of Preferences
IdsInPreferences ==
  IF ~prefs["presets"].set THEN {}
  ELSE {Parse(prefs["presets"].value)[i].id :
          i \in 1..Len(Parse(prefs["presets"].value))}

\* C14: deletePreset(id) of the facade does not raise when the driver's delete
\* succeeded, whatever happens to the clean-up of Preferences; when the
\* driver's delete failed and Preferences works, the preset is gone from the
\* list in Preferences and the call returns; the call raises only when both
\* failed, and then with the driver's error.
C14_DeleteRaisesOnlyOnDoubleFailure ==
  last.op = "deletePreset" =>
    /\ DeletedInDriver => ~last.raised
    /\ (~DeletedInDriver /\ "presets" \notin last.x.kv)
         => ~last.raised /\ last.arg \notin IdsInPreferences
    /\ last.raised
         => ~DeletedInDriver /\ "presets" \in last.x.kv /\ last.err = "sqlite"

\* the driver's delete failed and the list of Preferences lost the preset
C14_Witness ==
  /\ last.op = "deletePreset" /\ ~DeletedInDriver /\ ~last.raised
  /\ IdsInPreferences = {"p2"}

(* ===================== the driver's deletePreset ======================= *)
\* the i-th queued call is a deletePreset that has resolved, no call
\* submitted after it has started, and the connection has not been closed
JustDeleted(i) ==
  /\ queue[i].kind = "deletePreset" /\ queue[i].st = "resolved"
  /\ db # "null"
  /\ \A j \in (i + 1)..Len(queue) : queue[j].st = "queued"

\* C15: once the driver's deletePreset(id) has resolved, no row of
\* preset_activities has preset_id = id and getPresetById(id) returns null.
C15_DeletedPresetIsGone ==
  \A i \in 1..Len(queue) :
    JustDeleted(i) =>
      /\ \A r \in tables.preset_activities : r.preset_id # queue[i].arg
      /\ Resolve(Call("getPresetById", queue[i].arg), <<>>)
           = RunCall("getPresetById", queue[i].arg, tables, db, {}).o

\* a preset saved with its activities and then deleted
C15_Witness ==
  /\ Len(queue) = 2 /\ JustDeleted(2)
  /\ queue[1].kind = "savePreset" /\ queue[1].st = "resolved"
  /\ queue[1].arg.id = queue[2].arg /\ Len(queue[1].arg.activities) > 0

(* ======================= the facade's session mode ===================== *)
\* C16: once initialize() has set isInitialized to true, no call of the
\* facade and no failure of a store sets it back to false.
C16_ReadyStays == [][isInitialized => isInitialized']_vars

\* a write on the ready facade that found both stores failing
C16_Witness ==
  /\ isInitialized /\ last.op = "saveTotalPoints" /\ last.raised
  /\ last.x.kv # {} /\ db # "open"

(* ======================= CalendarSyncService =========================== *)
\* cal.credentials is the field `credentials` (its refresh_token is kept as
\* present or absent), cal.stored holds the keys google_calendar_credentials
\* and calendar_sync_status of Preferences.  cal.call is the record of the
\* last call: for a sync the activities given, whether the service was
\* connected, whether the promise rejected, the value it resolved with, and
\* the log of what the call did, in order: a createEvent entry for each call
\* of createEvent, a request entry for each fetch of the calendar endpoint
\* (with the access token sent and the response), a refresh entry for each
\* fetch of the token endpoint (with the access token received).
Event(kind, activity, token, response) ==
  [kind |-> kind, activity |-> activity, token |-> token, response |-> response]

\* What the network does during one createEvent: the response to the request
\* ("throw": fetch rejects) and, as far as they are reached, the answer of the
\* token endpoint and the response to the retry.
Attempts ==
  {att \in [first : {"ok", "401", "500", "throw"}, refresh : {"ok", "400", "throw"},
            retry : {"ok", "401", "500", "throw"}] :
     /\ att.first # "401" => att.refresh = "ok" /\ att.retry = "ok"
     /\ att.refresh # "ok" => att.retry = "ok"}

\* clearCredentials; kv: Preferences fails during this call, and the catch
\* leaves the fields as they are
clearCredentialsOfMemoryOnly(c, kv) ==
  IF kv THEN c
  ELSE [c EXCEPT !.stored = [credentials |-> Unset, status |-> Unset],
                 !.credentials = Unset]
clearCredentials(c, kv) ==
  IF kv THEN c
  ELSE [c EXCEPT !.stored = [credentials |-> Unset, status |-> Unset],
                 !.credentials = Unset, !.isConnected = FALSE]

\* refreshToken for the request of activity a: whether it returned true, and
\* the service afterwards
refreshTokenForgetting(c, a, outcome, kv) ==
  IF ~c.credentials.value.refresh_token THEN [c |-> c, ok |-> FALSE, log |-> <<>>]
  ELSE [c |-> [c EXCEPT !.issued = @ + 1], ok |-> outcome = "ok" /\ ~kv,
        log |-> <<Event("refresh", a, IF outcome = "ok" THEN c.issued + 1 ELSE 0, outcome)>>]
refreshToken(c, a, outcome, kv) ==
  LET fresh == [c EXCEPT !.issued = @ + 1, !.credentials.value.access_token = c.issued + 1]
  IN IF ~c.credentials.value.refresh_token THEN [c |-> c, ok |-> FALSE, log |-> <<>>]
     ELSE CASE outcome = "ok" ->
                 [c |-> IF kv THEN fresh
                        ELSE [fresh EXCEPT !.stored.credentials =
                                             Stored(Stringify(fresh.credentials.value))],
                  ok |-> ~kv,
                  log |-> <<Event("refresh", a, c.issued + 1, "ok")>>]
            [] outcome = "400" ->
                 [c |-> clearCredentials(c, kv), ok |-> FALSE,
                  log |-> <<Event("refresh", a, 0, "400")>>]
            [] outcome = "throw" ->
                 [c |-> c, ok |-> FALSE, log |-> <<Event("refresh", a, 0, "throw")>>]

\* makeApiRequest for the event of activity a: the response it returns, or
\* that it threw
makeApiRequestAgain(c, a, att, kv) ==
  LET Sent(r) == <<Event("request", a, c.credentials.value.access_token, r)>>
      Retried(r) ==
        IF ~r.ok
        THEN [c |-> r.c, threw |-> FALSE, response |-> "401", log |-> Sent("401") \o r.log]
        ELSE [c |-> r.c, threw |-> att.retry = "throw", response |-> att.retry,
              log |-> Sent("401") \o r.log
                      \o <<Event("request", a, r.c.credentials.value.access_token, att.retry)>>
                      \o IF att.retry = "401"
                         THEN <<Event("refresh", a, r.c.issued + 1, "ok")>> ELSE <<>>]
  IN IF ~c.credentials.set
     THEN [c |-> c, threw |-> TRUE, response |-> "none", log |-> <<>>]
     ELSE IF att.first = "401" THEN Retried(refreshToken(c, a, att.refresh, kv))
     ELSE [c |-> c, threw |-> att.first = "throw", response |-> att.first,
           log |-> Sent(att.first)]
makeApiRequest(c, a, att, kv) ==
  LET Sent(r) == <<Event("request", a, c.credentials.value.access_token, r)>>
      Retried(r) ==
        IF ~r.ok
        THEN [c |-> r.c, threw |-> FALSE, response |-> "401", log |-> Sent("401") \o r.log]
        ELSE [c |-> r.c, threw |-> att.retry = "throw", response |-> att.retry,
              log |-> Sent("401") \o r.log
                      \o <<Event("request", a, r.c.credentials.value.access_token, att.retry)>>]
  IN IF ~c.credentials.set
     THEN [c |-> c, threw |-> TRUE, response |-> "none", log |-> <<>>]
     ELSE IF att.first = "401" THEN Retried(refreshToken(c, a, att.refresh, kv))
     ELSE [c |-> c, threw |-> att.first = "throw", response |-> att.first,
           log |-> Sent(att.first)]

\* createEvent: true when the response is ok, false otherwise and when
\* makeApiRequest or fetch threw
createEvent(c, a, att, kv) ==
  LET Answered(m) ==
        [c |-> m.c, success |-> ~m.threw /\ m.response = "ok",
         log |-> <<Event("createEvent", a, 0, "none")>> \o m.log]
  IN Answered(makeApiRequest(c, a, att, kv))

\* The loop of syncActivitiesToCalendar.  createCalendarEvent throws on a time
\* that does not parse ('' is the form's default) and the catch of the loop
\* goes on to the next activity; scheduleNotification catches what it throws.
RECURSIVE SyncEachStopping(_, _, _, _)
SyncEachStopping(acc, activities, atts, kv) ==
  LET Counted(e) ==
        [c |-> e.c, successCount |-> acc.successCount + (IF e.success THEN 1 ELSE 0),
         log |-> acc.log \o e.log]
      Rest(next) ==
        IF next.successCount = acc.successCount THEN next
        ELSE SyncEachStopping(next, Tail(activities), Tail(atts), kv)
  IN IF activities = <<>> THEN acc
     ELSE Rest(IF Head(activities).startTime = "" THEN acc
               ELSE Counted(createEvent(acc.c, Head(activities).id, Head(atts), kv)))
RECURSIVE SyncEach(_, _, _, _)
SyncEach(acc, activities, atts, kv) ==
  LET Counted(e) ==
        [c |-> e.c, successCount |-> acc.successCount + (IF e.success THEN 1 ELSE 0),
         log |-> acc.log \o e.log]
  IN IF activities = <<>> THEN acc
     ELSE SyncEach(
            IF Head(activities).startTime = "" THEN acc
            ELSE Counted(createEvent(acc.c, Head(activities).id, Head(atts), kv)),
            Tail(activities), Tail(atts), kv)

IdsOf(activities) == [i \in 1..Len(activities) |-> activities[i].id]

\* the status saveSyncStatus is given after the loop
SyncStatusOfSynced(clock, activities, log) ==
  Stringify([lastSyncDate |-> clock,
             syncedActivities |->
               SelectSeq(IdsOf(activities),
                         LAMBDA id : \E i \in 1..Len(log) :
                           /\ log[i].kind = "request" /\ log[i].activity = id
                           /\ log[i].response = "ok")])
SyncStatus(clock, activities, log) ==
  Stringify([lastSyncDate |-> clock, syncedActivities |-> IdsOf(activities)])

\* syncActivitiesToCalendar(activities, date) at the time c.clock
syncActivitiesToCalendarAlways(c, activities, atts, kv) ==
  LET Called(connected, rejected, res, log) ==
        [op |-> "sync", activities |-> activities, connected |-> connected,
         rejected |-> rejected, res |-> res, log |-> log, kv |-> kv]
      Finish(acc) ==
        IF kv THEN [acc.c EXCEPT !.call = Called(TRUE, TRUE, FALSE, acc.log)]
        ELSE [acc.c EXCEPT !.stored.status =
                             Stored(SyncStatus(c.clock, activities, acc.log)),
                           !.call = Called(TRUE, FALSE, TRUE, acc.log)]
  IN IF ~c.isConnected \/ ~c.credentials.set
     THEN [c EXCEPT !.call = Called(FALSE, TRUE, FALSE, <<>>)]
     ELSE Finish(SyncEach([c |-> c, successCount |-> 0, log |-> <<>>],
                          activities, atts, kv))
syncActivitiesToCalendar(c, activities, atts, kv) ==
  LET Called(connected, rejected, res, log) ==
        [op |-> "sync", activities |-> activities, connected |-> connected,
         rejected |-> rejected, res |-> res, log |-> log, kv |-> kv]
      Finish(acc) ==
        IF kv THEN [acc.c EXCEPT !.call = Called(TRUE, TRUE, FALSE, acc.log)]
        ELSE [acc.c EXCEPT !.stored.status =
                             Stored(SyncStatus(c.clock, activities, acc.log)),
                           !.call = Called(TRUE, FALSE, acc.successCount > 0, acc.log)]
  IN IF ~c.isConnected \/ ~c.credentials.set
     THEN [c EXCEPT !.call = Called(FALSE, TRUE, FALSE, <<>>)]
     ELSE Finish(SyncEach([c |-> c, successCount |-> 0, log |-> <<>>],
                          activities, atts, kv))

\* initialize(): the stored credentials, when there are some, are put in
\* memory and tried on the calendar list (validateToken); a token that is not
\* valid clears them.  loadStoredCredentials gives null when Preferences fails.
calendarInitialize(c, att, kv) ==
  LET Called(log) ==
        [op |-> "initialize", activities |-> <<>>, connected |-> c.isConnected,
         rejected |-> FALSE, res |-> FALSE, log |-> log, kv |-> kv]
      Loaded == [c EXCEPT !.credentials = Stored(Parse(c.stored.credentials.value)),
                          !.isConnected = TRUE]
      Validated(m) ==
        [(IF ~m.threw /\ m.response = "ok" THEN m.c ELSE clearCredentials(m.c, kv))
           EXCEPT !.call = Called(m.log)]
  IN IF kv \/ ~c.stored.credentials.set THEN [c EXCEPT !.call = Called(<<>>)]
     ELSE Validated(makeApiRequest(Loaded, "calendarList", att, kv))

(* ---------------- SpecSync: connect, sync, disconnect ------------------ *)
\* time passes between the calls
Later(c) == [c EXCEPT !.clock = @ + 1]

\* setCredentials with what the OAuth flow gave: a new access token, with or
\* without a refresh token; it throws when saveCredentials does
SetCredentials(refreshable, kv) ==
  LET Given(c) ==
        [c EXCEPT !.issued = @ + 1,
                  !.credentials = Stored([access_token |-> c.issued + 1,
                                          refresh_token |-> refreshable]),
                  !.isConnected = TRUE]
      Persisted(c) ==
        [c EXCEPT !.stored.credentials =
                    IF kv THEN @ ELSE Stored(Stringify(c.credentials.value)),
                  !.call = [op |-> "setCredentials", activities |-> <<>>,
                            connected |-> TRUE, rejected |-> kv, res |-> FALSE,
                            log |-> <<>>, kv |-> kv]]
  IN /\ cal.clock < MaxCalendarCalls
     /\ cal' = Persisted(Given(Later(cal)))
     /\ UNCHANGED <<driverVars, faults, prefs, facadeVars, view>>

Disconnect(kv) ==
  /\ cal.clock < MaxCalendarCalls
  /\ cal' = [clearCredentials(Later(cal), kv) EXCEPT
               !.call = [op |-> "disconnect", activities |-> <<>>,
                         connected |-> cal.isConnected, rejected |-> FALSE,
                         res |-> FALSE, log |-> <<>>, kv |-> kv]]
  /\ UNCHANGED <<driverVars, faults, prefs, facadeVars, view>>

\* initialize() at the start of the application; fresh: in a new process,
\* whose service is as constructed
StartCalendar(fresh, att, kv) ==
  LET Constructed(c) ==
        IF fresh THEN [c EXCEPT !.credentials = Unset, !.isConnected = FALSE] ELSE c
  IN /\ cal.clock < MaxCalendarCalls
     /\ cal' = calendarInitialize(Constructed(Later(cal)), att, kv)
     /\ UNCHANGED <<driverVars, faults, prefs, facadeVars, view>>

\* the activities of a sync: two with times, one with the form's empty time
SyncActivity(id) == [id |-> id, startTime |-> IF id = "a3" THEN "" ELSE "09:00"]

Sync(activities, atts, kv) ==
  /\ cal.clock < MaxCalendarCalls
  /\ cal' = syncActivitiesToCalendar(Later(cal), activities, atts, kv)
  /\ UNCHANGED <<driverVars, faults, prefs, facadeVars, view>>

NextSync ==
  \/ \E refreshable \in BOOLEAN, kv \in BOOLEAN : SetCredentials(refreshable, kv)
  \/ \E kv \in BOOLEAN : Disconnect(kv)
  \/ \E fresh \in BOOLEAN, att \in Attempts, kv \in BOOLEAN : StartCalendar(fresh, att, kv)
  \/ \E ids \in {<<>>, <<"a1">>, <<"a1", "a2">>, <<"a3", "a1">>, <<"a1", "a3">>},
        kv \in BOOLEAN :
       \E atts \in [1..Len(ids) -> Attempts] :
         /\ \A i \in 1..Len(ids) : ids[i] = "a3" => atts[i].first = "ok"
         /\ Sync([i \in 1..Len(ids) |-> SyncActivity(ids[i])], atts, kv)

SpecSync == Init /\ [][NextSync]_vars

(* ------------------------ the batch and its log ------------------------ *)
\* the last call was a sync on a connected service
Synced == cal.call.op = "sync" /\ cal.call.connected

\* the entries of one kind that the last call logged for activity a
Logged(kind, a) ==
  SelectSeq(cal.call.log, LAMBDA e : e.kind = kind /\ e.activity = a)

\* the create-event request for activity a got an ok response
Created(a) ==
  \E i \in 1..Len(Logged("request", a)) : Logged("request", a)[i].response = "ok"

\* C17: a sync on a connected service that returns, returns true exactly
\* when the create-event request of at least one activity of the list got an
\* ok response (false for the empty list and when every activity failed).
C17_TrueIffOneCreated ==
  (Synced /\ ~cal.call.rejected)
    => (cal.call.res <=> \E i \in 1..Len(cal.call.activities) :
                           Created(cal.call.activities[i].id))

\* true for a list of two of which only the second was created
C17_Witness ==
  /\ Synced /\ cal.call.res /\ Len(cal.call.activities) = 2
  /\ ~Created(cal.call.activities[1].id) /\ Created(cal.call.activities[2].id)

C19_StatusRecorded ==
  (Synced /\ ~cal.call.rejected)
    => /\ cal.stored.status.set
       /\ Parse(cal.stored.status.value)
            = [lastSyncDate |-> cal.clock,
               syncedActivities |-> IdsOf(cal.call.activities)]

\* a batch of two in which nothing was created
C19_Witness ==
  /\ Synced /\ ~cal.call.rejected /\ ~cal.call.res
  /\ Len(cal.call.activities) = 2 /\ cal.stored.status.set

\* C20: for the request of one activity the token endpoint is asked at most
\* once and only after a 401, the request is sent at most twice, the second
\* time only after a refresh that gave a token and with that token; after a
\* refresh that succeeded the request is sent exactly once more, and a 401 on
\* the retry is followed by nothing.
C20_OneRefreshOneRetry ==
  Synced =>
    \A i \in 1..Len(cal.call.activities) :
      LET Bounded(requests, refreshes) ==
            /\ Len(refreshes) <= 1 /\ Len(requests) <= 2
            /\ Len(refreshes) = 1 => requests[1].response = "401"
            /\ Len(requests) = 2
                 => /\ Len(refreshes) = 1 /\ refreshes[1].response = "ok"
                    /\ requests[2].token = refreshes[1].token
                    /\ requests[2].token # requests[1].token
            /\ (Len(refreshes) = 1 /\ refreshes[1].response = "ok" /\ ~cal.call.kv)
                 => Len(requests) = 2
      IN Bounded(Logged("request", cal.call.activities[i].id),
                 Logged("refresh", cal.call.activities[i].id))

\* a retry that was answered 401
C20_Witness ==
  /\ Synced
  /\ \E i \in 1..Len(cal.call.activities) :
       /\ Len(Logged("request", cal.call.activities[i].id)) = 2
       /\ Logged("request", cal.call.activities[i].id)[2].response = "401"
       /\ Len(Logged("refresh", cal.call.activities[i].id)) = 1

\* the refresh that the 401 to the request of activity a set off failed: the
\* request was answered 401 and was not sent again
RefreshFailed(a) ==
  /\ Len(Logged("request", a)) = 1
  /\ Logged("request", a)[1].response = "401"

\* C21: whenever the refresh set off by a 401 fails (no refresh token, the
\* token endpoint refuses, or its fetch rejects), the credentials are cleared
\* in memory and in Preferences.  (Stated for calls in which Preferences
\* works.)
C21_FailedRefreshClears ==
  ( /\ Synced /\ ~cal.call.kv
    /\ \E i \in 1..Len(cal.call.activities) : RefreshFailed(cal.call.activities[i].id) )
    => ~cal.credentials.set /\ ~cal.isConnected /\ ~cal.stored.credentials.set

\* the entries of one kind in the log of the last call
Entries(kind) == SelectSeq(cal.call.log, LAMBDA e : e.kind = kind)

\* The remote API answered 401 to the first request of the batch, the token
\* endpoint gave a new token, and every request sent with that token was
\* accepted.
ExpiredOnce ==
  /\ Synced /\ ~cal.call.kv
  /\ Entries("request") # <<>> /\ Entries("request")[1].response = "401"
  /\ Entries("refresh") # <<>> /\ Entries("refresh")[1].response = "ok"
  /\ \A i \in 1..Len(Entries("request")) :
       Entries("request")[i].token = Entries("refresh")[1].token
         => Entries("request")[i].response = "ok"

\* C22: when the first request of a batch is answered 401 and every request
\* made with the refreshed token is accepted, the sync returns true and the
\* token endpoint is asked exactly once in the whole batch.
C22_OneRefreshPerBatch ==
  ExpiredOnce
    => /\ ~cal.call.rejected /\ cal.call.res
       /\ Len(Entries("refresh")) = 1

\* a batch of two: the first request expired, the second activity went out
\* with the new token
C22_Witness ==
  /\ ExpiredOnce /\ Len(cal.call.activities) = 2
  /\ Len(Entries("request")) = 3
  /\ Entries("request")[3].token = Entries("refresh")[1].token

(* ------------------------- createCalendarEvent ------------------------- *)
\* A time of day is kept as its text split at ':' (<<"09", "30">> is '09:30',
\* <<"">> is the empty text of a form left blank); a Date is either Invalid
\* (getTime() is NaN) or the minutes since the start of day 0, in a zone whose
\* days all have 24 hours.
TwoDigits(n) == IF n < 10 THEN "0" \o ToString(n) ELSE ToString(n)
TimeText(h, m) == <<TwoDigits(h), TwoDigits(m)>>
NoTimeText == <<"">>

Invalid == [nan |-> TRUE, time |-> 0]
DateAt(t) == [nan |-> FALSE, time |-> t]

\* parseInt of one field of the text: a set holding the number, empty for NaN
ParseField(fields, i) ==
  IF i > Len(fields) THEN {} ELSE {n \in 0..59 : TwoDigits(n) = fields[i]}

\* new Date(date) followed by setHours(parseInt(h), parseInt(m), 0, 0)
setHours(date, fields) ==
  IF ParseField(fields, 1) = {} \/ ParseField(fields, 2) = {} THEN Invalid
  ELSE DateAt(date * 24 * 60
              + (CHOOSE h \in ParseField(fields, 1) : TRUE) * 60
              + (CHOOSE m \in ParseField(fields, 2) : TRUE))

\* createCalendarEvent(activity, date): throws on a time that is not a date,
\* moves an end that is not after the start to one hour after the start
createCalendarEventUnadjusted(activity, date) ==
  LET Built(startDateTime, endDateTime) ==
        IF startDateTime.nan \/ endDateTime.nan
          THEN [threw |-> TRUE, id |-> <<>>, start |-> 0, end |-> 0]
          ELSE [threw |-> FALSE, id |-> <<activity.id, date>>,
                start |-> startDateTime.time, end |-> endDateTime.time]
  IN Built(setHours(date, activity.startTime), setHours(date, activity.endTime))
createCalendarEvent(activity, date) ==
  LET Built(startDateTime, endDateTime) ==
        IF startDateTime.nan \/ endDateTime.nan
          THEN [threw |-> TRUE, id |-> <<>>, start |-> 0, end |-> 0]
          ELSE [threw |-> FALSE, id |-> <<activity.id, date>>,
                start |-> startDateTime.time,
                end |-> IF endDateTime.time <= startDateTime.time
                          THEN startDateTime.time + 60
                          ELSE endDateTime.time]
  IN Built(setHours(date, activity.startTime), setHours(date, activity.endTime))

\* the times of day and the target dates of the events built
EventHours == {0, 9, 10, 23}
EventMinutes == {0, 30}
EventTimes == {TimeText(h, m) : h \in EventHours, m \in EventMinutes} \cup {NoTimeText}
EventDates == {0, 1}

\* one pass of the loop of syncActivitiesToCalendar up to the event it builds
BuildEvent(activity, date) ==
  /\ cal' = [cal EXCEPT !.call =
               [op |-> "createCalendarEvent", activities |-> <<activity>>,
                connected |-> cal.isConnected,
                rejected |-> createCalendarEvent(activity, date).threw,
                res |-> FALSE,
                log |-> <<[kind |-> "event", date |-> date,
                           event |-> createCalendarEvent(activity, date)]>>,
                kv |-> FALSE]]
  /\ UNCHANGED <<driverVars, faults, prefs, facadeVars, view>>

NextEvent ==
  \E start \in EventTimes, end \in EventTimes, date \in EventDates :
    BuildEvent([id |-> "a1", startTime |-> start, endTime |-> end], date)

SpecEvent == Init /\ [][NextEvent]_vars

\* the last step built an event
EventBuilt == cal.call.op = "createCalendarEvent" /\ ~cal.call.rejected

\* the minutes after midnight that a time of day of EventTimes names
MinuteOfDay(fields) ==
  CHOOSE t \in 0..(24 * 60 - 1) :
    \E h \in EventHours, m \in EventMinutes : fields = TimeText(h, m) /\ t = h * 60 + m

\* C23: the event built for an activity ends strictly after it starts; when
\* the activity's end time is at or before its start time the end is exactly
\* the start plus 60 minutes, otherwise start and end are the activity's own
\* times on the target date.
C23_EndAfterStart ==
  EventBuilt =>
    LET activity == cal.call.activities[1]
        date == cal.call.log[1].date
        event == cal.call.log[1].event
        from == MinuteOfDay(activity.startTime)
        to == MinuteOfDay(activity.endTime)
    IN /\ event.end > event.start
       /\ event.start = date * 24 * 60 + from
       /\ event.end = IF to <= from THEN event.start + 60 ELSE date * 24 * 60 + to

\* an activity from 23:30 to 00:00 on day 1: its event ends on day 2
C23_Witness ==
  /\ EventBuilt
  /\ cal.call.activities[1].startTime = TimeText(23, 30)
  /\ cal.call.activities[1].endTime = TimeText(0, 0)
  /\ cal.call.log[1].date = 1
  /\ cal.call.log[1].event.end = 2 * 24 * 60 + 30

\* C24: once disconnect() has returned the service is not connected, holds no
\* credentials in memory, and Preferences holds neither the credentials nor
\* the sync status, also when a removal from Preferences failed.
C24_DisconnectedEverywhere ==
  cal.call.op = "disconnect"
    => /\ ~cal.isConnected /\ ~cal.credentials.set
       /\ ~cal.stored.credentials.set /\ ~cal.stored.status.set

(* ------------------------- the row of the points ----------------------- *)
OneMainRow ==
  /\ Cardinality(tables.points_tracking) = 1
  /\ \A r \in tables.points_tracking : r.id = "main"

\* C25: once initialize() of the driver has succeeded, points_tracking holds
\* exactly one row, with id 'main', and every later step (the updates of the
\* points, savePoints, loadPoints, close() and another initialize()) keeps it so.
C25_OnePointsRow ==
  [][(sqlInitialized' => OneMainRow') /\ (OneMainRow => OneMainRow')]_vars

\* the row after updateTotalPoints(10) and updateLastActivityDate('day2')
C25_Witness ==
  /\ sqlInitialized /\ OneMainRow
  /\ \E r \in tables.points_tracking : r.total_points = 10 /\ r.last_activity_date = "day2"

\* C26: after clearAllData() has completed, none of the keys of Preferences
\* that the facade writes is present.
C26_ClearedEveryKey ==
  (last.op = "clearAllData" /\ ~last.raised) => \A k \in PrefKeys : ~prefs[k].set

\* C27: a facade write whose attempt on the driver failed makes no other write
\* to the driver in the same call; stated for addCompletedTask and
\* removeCompletedTask: the tables are as they were before the call.
C27_NoSecondStructuredWrite ==
  [][ ( /\ last'.op \in {"addCompletedTask", "removeCompletedTask"}
        /\ last'.op \in last'.x.sql
        /\ isInitialized )
      => tables' = tables ]_vars

\* the driver is usable whenever the facade tries it
DriverUsable == isInitialized => (sqlInitialized /\ db = "open" /\ tables.schema)

\* C28: exportAllData() called after importAllData(D) in which no write
\* failed returns D, whatever the stores held before the import.
C28_ExportGivesImported ==
  [][ ( /\ last.op = "importAllData" /\ last.clean /\ ~last.raised /\ DriverUsable
        /\ last'.op = "exportAllData" /\ last'.clean )
      => last'.res = last.arg ]_vars

(* ------------------ the driver's writes of several rows ---------------- *)
\* what loadCompletedTasks() gives on tables T, as a set
TasksLoaded(T) ==
  LET Range(res) == {res[i] : i \in 1..Len(res)}
  IN Range(RunCall("loadCompletedTasks", <<>>, T, "open", {}).o.res)

\* C29: after saveCompletedTasks(list) of the driver has settled,
\* loadCompletedTasks() gives the tasks of list or the tasks stored before the
\* call, and the tasks of list when the call succeeded; checked for a call run
\* on the database of each reachable state, with the engine raising on no
\* statement, on the DELETE or on the first INSERT.
C29_BulkReplace ==
  (db = "open" /\ tables.schema) =>
    \A t \in QueueTasks, F \in {{}, {1}, {2}} :
      LET Settles(r) ==
            /\ TasksLoaded(r.T) \in {{t}, TasksLoaded(tables)}
            /\ r.o.st = "resolved" => TasksLoaded(r.T) = {t}
      IN Settles(RunCall("saveCompletedTasks", <<t>>, tables, db, F))

\* getPresetById(id) run on tables T
PresetRead(T, id) == RunCall("getPresetById", id, T, "open", {}).o

\* preset P as getPresetById gives it once savePreset(P) has stored all of it
PresetStored(P) ==
  PresetRead(RunCall("savePreset", P, [EmptyTables EXCEPT !.schema = TRUE], "open", {}).T,
             P.id)

\* C30: savePreset(P) of the driver is all-or-nothing: whichever of its
\* statements fails (the upsert of the row, the delete of the old activities,
\* the insert of an activity), the store afterwards holds for P.id the
\* previous version of the preset or the new one with all its activities;
\* checked for a call run on the database of each reachable state.
C30_SavePresetAllOrNothing ==
  (db = "open" /\ tables.schema) =>
    \A P \in QueuePresets, F \in {{}, {1}, {2}, {3}, {4}} :
      LET Settles(r) == PresetRead(r.T, P.id) \in {PresetRead(tables, P.id), PresetStored(P)}
      IN Settles(RunCall("savePreset", P, tables, db, F))

(* ---------------------- presets among other presets -------------------- *)
\* no call handed to queueOperation is waiting or running
QueueSettled == \A i \in 1..Len(queue) : Settled(queue[i])

\* C31: savePreset(P) succeeds and getPresetById(P.id) then gives P with all
\* its activities whatever other presets are stored, also when one of them
\* holds an activity with an id of P's; the other presets stay as they were.
\* Checked for a call run on the database of each reachable state in which
\* no other call is running.
C31_SavePresetAmongOthers ==
  (db = "open" /\ tables.schema /\ QueueSettled) =>
    \A P \in QueuePresets :
      LET Settles(r) ==
            /\ r.o.st = "resolved"
            /\ PresetRead(r.T, P.id) = PresetStored(P)
            /\ \A q \in PresetIds \ {P.id} : PresetRead(r.T, q) = PresetRead(tables, q)
      IN Settles(RunCall("savePreset", P, tables, db, {}))

\* C38: in every state of the service isConnected is true exactly when
\* credentials are held in memory, through initialize, setCredentials, the
\* refresh of the token, clearCredentials and disconnect.
C38_ConnectedIffCredentials == cal.isConnected <=> cal.credentials.set

\* the service after a start in a new process that found stored credentials
\* whose token the calendar refused and the token endpoint would not renew
C38_Witness ==
  /\ cal.call.op = "initialize" /\ ~cal.call.kv
  /\ \E i \in 1..Len(cal.call.log) :
       cal.call.log[i].kind = "refresh" /\ cal.call.log[i].response = "400"
  /\ ~cal.isConnected /\ ~cal.credentials.set

\* C37: when a call has cleared the credentials (disconnect(), or a refresh
\* that the token endpoint refused during a batch), no sync status is left in
\* Preferences once the call has returned: the batch does not write one after
\* the clear.
C37_NoStatusAfterClear ==
  ( /\ ~cal.call.kv /\ ~cal.credentials.set
    /\ (Synced \/ (cal.call.op = "disconnect" /\ cal.call.connected)) )
    => ~cal.stored.status.set

(* --------------------- the fields of the points row -------------------- *)
\* the points row after a whole call of one of the single-field updates
PointsAfter(kind, arg) == PointsOf(RunCall(kind, arg, tables, db, {}).T)

\* the tables other than points_tracking after the call are as before it
OthersKept(kind, arg) ==
  LET Kept(T) == /\ T.presets = tables.presets
                 /\ T.preset_activities = tables.preset_activities
                 /\ T.completed_tasks = tables.completed_tasks
  IN Kept(RunCall(kind, arg, tables, db, {}).T)

\* C39: each single-field update of the points changes its own field only:
\* updateTotalPoints leaves dailyPoints and lastActivityDate, updateDailyPoints
\* leaves totalPoints and lastActivityDate, updateLastActivityDate leaves both
\* counters, and none of them touches presets or completed tasks.  Checked for
\* a call run on the database of each reachable state.
C39_OwnFieldOnly ==
  (db = "open" /\ tables.schema) =>
    /\ \A n \in {0, 10} :
         /\ PointsAfter("updateTotalPoints", n) = [PointsOf(tables) EXCEPT !.totalPoints =
              IF tables.points_tracking = {} THEN 0 ELSE n]
         /\ PointsAfter("updateDailyPoints", n) = [PointsOf(tables) EXCEPT !.dailyPoints =
              IF tables.points_tracking = {} THEN 0 ELSE n]
         /\ OthersKept("updateTotalPoints", n) /\ OthersKept("updateDailyPoints", n)
    /\ \A d \in {"day1", "day2"} :
         /\ PointsAfter("updateLastActivityDate", d).totalPoints = PointsOf(tables).totalPoints
         /\ PointsAfter("updateLastActivityDate", d).dailyPoints = PointsOf(tables).dailyPoints
         /\ OthersKept("updateLastActivityDate", d)

\* the row holds points and a date, and presets and tasks are stored, so that
\* an update has something to leave alone
C39_Witness ==
  /\ db = "open" /\ tables.schema
  /\ PointsOf(tables).totalPoints = 5 /\ PointsOf(tables).lastActivityDate = "day1"
  /\ PointsAfter("updateDailyPoints", 10) =
       [totalPoints |-> 5, dailyPoints |-> 10, lastActivityDate |-> "day1"]
  /\ tables.completed_tasks # {}

(* ------------------------- reading what was written -------------------- *)
\* the read of the facade that gives back what each write stored
ReadOf ==
  [savePresets |-> "loadPresets",
   saveTotalPoints |-> "loadTotalPoints",
   saveDailyPoints |-> "loadDailyPoints",
   saveLastActivityDate |-> "loadLastActivityDate",
   saveCompletedTasks |-> "loadCompletedTasks"]

\* C33: a read of the facade that follows, with no call in between, a write
\* of the same kind that returned without raising gives the value written,
\* whichever calls of the session the driver failed in (Preferences works in
\* both calls).
C33_ReadYourWrites ==
  [][ ( /\ last.op \in DOMAIN ReadOf /\ ~last.raised /\ last.x.kv = {}
        /\ last'.op = ReadOf[last.op] /\ last'.x.kv = {} )
      => last'.res = last.arg ]_vars

(* -------------------- savePresets in the two modes --------------------- *)
\* C34: loadPresets() after a successful savePresets(L) gives exactly the
\* presets of L, with the driver in use and with Preferences alone: a preset
\* stored before that is not in L is not given any more.  Checked for the two
\* calls run on the stores of each reachable state in which the driver is
\* usable whenever the facade tries it.
C34_SavePresetsReplaces ==
  DriverUsable =>
    \A L \in PresetLists :
      LET Loads(w) == ~w.raised => FloadPresets(w.S, NoFault).res = L
      IN Loads(FsavePresets(Here, L, NoFault))

(* ------------------------ presets after a restart ---------------------- *)
\* C35: a preset removed by a deletePreset(id) of the facade that returned
\* without raising is not given by loadPresets() after the next start of the
\* application (initialize() in a new process, with the driver's migration of
\* the 'presets' blob of Preferences).
C35_DeletedStaysDeleted ==
  [][ ( /\ last.op = "deletePreset" /\ ~last.raised
        /\ last'.op = "mount" /\ last'.clean )
      => \A i \in 1..Len(last'.res) : last'.res[i].id # last.arg ]_vars

(* ----------------------- the points once all settled ------------------- *)
\* the stored daily points as loadDailyPoints() gives them
StoredDailyPoints == Fload(Here, "loadDailyPoints", <<>>, "ok", NoFault).res

\* C36: when every call of the facade made by completeTask, uncompleteTask
\* and the save effects has settled, the stored totalPoints and dailyPoints
\* are the totalPoints and dailyPoints of the component.
C36_StoredIsInMemory ==
  (view.pending = <<>> /\ view.seen = Rendered) =>
    /\ FloadTotalPoints(Here, NoFault).res = view.totalPoints
    /\ StoredDailyPoints = view.dailyPoints

(* --------------------- initialize() called twice ----------------------- *)
\* C32: whatever calls of the facade's initialize() overlap, the driver's
\* initialization runs for at most one of them, at most one of them migrates
\* legacy blobs, and no legacy blob is saved by two of them.
C32_InitializedOnce ==
  LET Calls == 1..Len(starting)
  IN /\ Cardinality({i \in Calls : starting[i].body}) <= 1
     /\ Cardinality({i \in Calls : starting[i].todo # <<>> \/ starting[i].saved # <<>>}) <= 1
     /\ \A i, j \in Calls :
          i # j => \A m \in 1..Len(starting[i].saved), n \in 1..Len(starting[j].saved) :
                     starting[i].saved[m] # starting[j].saved[n]

=============================================================================
